---- MODULE Spec2Model ----
(***************************************************************************)
(* Model of the GitHub ingestion service (github_mcp): the persistence     *)
(* layer (common.py), the user status record (user_service.py), the path   *)
(* classifier and the ingestion orchestrator (ingest.py), the background   *)
(* job API (main.py) and the read tools (server.py).                       *)
(*                                                                         *)
(* Spec is the service: requests, the executor and its runs.  SpecCli is   *)
(* the command line of ingest.py: ingest() with the configured             *)
(* max_commits.  SpecTools is the tool server over the stores that runs    *)
(* leave.  SpecClassifier is detect_signals applied to path lists.         *)
(* SpecShared is the tool server while runs go on writing to the store.    *)
(* SpecLive is Spec with the scheduling of the executor's threads.         *)
(*                                                                         *)
(* Text is modelled as a sequence of one-character strings so that prefix, *)
(* suffix, substring and lower-casing are computed, not assumed.           *)
(*                                                                         *)
(* The environment of the program:                                         *)
(*  - db_mode is what get_db_mode() returns while the service runs.        *)
(*    run_ingestion_job sets DB_MODE=postgres in the process environment   *)
(*    (main.py:103), but a DB_MODE=sqlite line of github_mcp/secrets.env   *)
(*    has priority (common.py:31-47), so a run works in either mode.       *)
(*  - The store holds the tables the statements of ingest.py and           *)
(*    user_service.py address, and it either applies a statement or raises *)
(*    on it; which one is chosen per statement.  Every reason for which a  *)
(*    store raises is such a choice: a lost connection, a locked file, and *)
(*    also a statement the store cannot execute at all (ingest.py names    *)
(*    the key column `user`, a column diff_summary and `?` placeholders;   *)
(*    SCHEMA_SQL of common.py names the key column user_name, has no       *)
(*    diff_summary, and psycopg2 takes %s placeholders only).              *)
(*  - ingest.py imports get_db_path from .common, which common.py does not *)
(*    define; the model describes the service with that import resolved.   *)
(***************************************************************************)
EXTENDS Integers, Sequences, FiniteSets, TLC

(***************************************************************************)
(* Bounds of the model.                                                    *)
(***************************************************************************)
\* number of POST /ingest requests in one behaviour
MaxRequests == 2
\* number of repositories the source holds for a user
MaxRepos == 2
\* number of commits the source holds for a repository
MaxSourceCommits == 2
\* number of distinct states of the source (its content differs per state)
MaxSnapshots == 2
\* number of calls (network or storage) that fail in one behaviour
MaxFaults == 2
\* page size of the commit listing (per_page = 100 in ingest.py:323, scaled)
PerPage == 2
\* page size the source uses for the repository listing (per_page = 100 in
\* ingest.py:60, scaled)
RepoPageSize == 1
\* max_commits handed to ingest() by the API (200 in main.py:120, scaled)
ApiMaxCommits == 3

\* ThreadPoolExecutor(max_workers=2)
MaxWorkers == 2
\* paths[:50]
SampleLimit == 50

UserNames == <<"alice", "bob">>
Users == {UserNames[k] : k \in 1..Len(UserNames)}
Workers == 1..MaxWorkers
Snapshots == 1..MaxSnapshots

\* Python's None / SQL NULL in a text column
None == "<None>"

(***************************************************************************)
(* Text helpers: str.lower, str.startswith, str.endswith, `in`.            *)
(***************************************************************************)
lower_char(c) ==
    CASE c = "A" -> "a" [] c = "B" -> "b" [] c = "C" -> "c" [] c = "D" -> "d"
      [] c = "E" -> "e" [] c = "F" -> "f" [] c = "G" -> "g" [] c = "H" -> "h"
      [] c = "I" -> "i" [] c = "J" -> "j" [] c = "K" -> "k" [] c = "L" -> "l"
      [] c = "M" -> "m" [] c = "N" -> "n" [] c = "O" -> "o" [] c = "P" -> "p"
      [] c = "Q" -> "q" [] c = "R" -> "r" [] c = "S" -> "s" [] c = "T" -> "t"
      [] c = "U" -> "u" [] c = "V" -> "v" [] c = "W" -> "w" [] c = "X" -> "x"
      [] c = "Y" -> "y" [] c = "Z" -> "z" [] OTHER -> c

\* defective variant: the path is compared as it is written
lower_unchanged(p) == p

lower(p) == [i \in 1..Len(p) |-> lower_char(p[i])]

\* defective variant: the whole path must equal the prefix
startswith_whole(p, pref) == p = pref

startswith(p, pref) ==
    Len(pref) <= Len(p) /\ SubSeq(p, 1, Len(pref)) = pref

endswith(p, suf) ==
    Len(suf) <= Len(p) /\ SubSeq(p, Len(p) - Len(suf) + 1, Len(p)) = suf

\* defective variant: membership taken for equality
contains_whole(p, sub) == p = sub

\* sub in p
contains(p, sub) ==
    \E i \in 0..(Len(p) - Len(sub)) : SubSeq(p, i + 1, i + Len(sub)) = sub

startswith_any(p, prefs) == \E x \in prefs : startswith(p, x)
endswith_any(p, sufs) == \E x \in sufs : endswith(p, x)

\* int(bool)
int(b) == IF b THEN 1 ELSE 0

\* defective variant: the score is cut off after the first decimal
round1_truncating(k, n) == (1000 * k) \div n

\* round(k / n * 100, 1), in tenths (22.2 is 222)
round1(k, n) == (2000 * k + n) \div (2 * n)

(***************************************************************************)
(* detect_signals: the path classifier and the three scores.               *)
(***************************************************************************)
lint_files == {
    <<".","r","u","f","f",".","t","o","m","l">>, <<"r","u","f","f",".","t","o","m","l">>, <<"p","y","p","r","o","j","e","c","t",".","t","o","m","l">>, <<".","f","l","a","k","e","8">>, <<"s","e","t","u","p",".","c","f","g">>,
    <<".","p","y","l","i","n","t","r","c">>, <<".","e","s","l","i","n","t","r","c">>, <<".","e","s","l","i","n","t","r","c",".","j","s","o","n">>, <<".","e","s","l","i","n","t","r","c",".","j","s">>,
    <<".","e","s","l","i","n","t","r","c",".","c","j","s">>, <<".","e","s","l","i","n","t","r","c",".","y","a","m","l">>, <<".","p","r","e","t","t","i","e","r","r","c">>, <<".","p","r","e","t","t","i","e","r","r","c",".","j","s","o","n">>,
    <<".","p","r","e","t","t","i","e","r","r","c",".","j","s">>, <<".","p","r","e","t","t","i","e","r","r","c",".","y","a","m","l">>, <<".","s","t","y","l","e","l","i","n","t","r","c">>, <<".","e","d","i","t","o","r","c","o","n","f","i","g">>,
    <<".","c","l","a","n","g","-","f","o","r","m","a","t">> }

\* the elif chain of one path: the labels the path adds to tech_stack
tech_labels(p) ==
    IF endswith(p, <<".","p","y">>) \/ endswith(p, <<"r","e","q","u","i","r","e","m","e","n","t","s",".","t","x","t">>)
       \/ endswith(p, <<"p","y","p","r","o","j","e","c","t",".","t","o","m","l">>) \/ endswith(p, <<"s","e","t","u","p",".","p","y">>)
       \/ contains(p, <<"/","p","y","t","h","o","n">>)
    THEN {<<"P","y","t","h","o","n">>} \cup
         (IF contains(p, <<"f","a","s","t","a","p","i">>) THEN {<<"F","a","s","t","A","P","I">>}
          ELSE IF contains(p, <<"f","l","a","s","k">>) THEN {<<"F","l","a","s","k">>}
          ELSE IF contains(p, <<"d","j","a","n","g","o">>) THEN {<<"D","j","a","n","g","o">>}
          ELSE IF contains(p, <<"s","t","r","e","a","m","l","i","t">>) THEN {<<"S","t","r","e","a","m","l","i","t">>}
          ELSE {})
    ELSE IF endswith_any(p, {<<".","t","s">>, <<".","t","s","x">>, <<"t","s","c","o","n","f","i","g",".","j","s","o","n">>})
    THEN {<<"T","y","p","e","S","c","r","i","p","t">>} \cup
         (IF contains(p, <<"r","e","a","c","t">>) THEN {<<"R","e","a","c","t">>}
          ELSE IF contains(p, <<"n","e","x","t">>) THEN {<<"N","e","x","t",".","j","s">>}
          ELSE IF contains(p, <<"n","o","d","e">>) THEN {<<"N","o","d","e",".","j","s">>}
          ELSE {})
    ELSE IF endswith_any(p, {<<".","j","s">>, <<".","j","s","x">>, <<"p","a","c","k","a","g","e",".","j","s","o","n">>})
    THEN {<<"J","a","v","a","S","c","r","i","p","t">>} \cup
         (IF contains(p, <<"r","e","a","c","t">>) THEN {<<"R","e","a","c","t">>}
          ELSE IF contains(p, <<"v","u","e">>) THEN {<<"V","u","e">>}
          ELSE IF contains(p, <<"a","n","g","u","l","a","r">>) THEN {<<"A","n","g","u","l","a","r">>}
          ELSE IF contains(p, <<"n","o","d","e">>) THEN {<<"N","o","d","e",".","j","s">>}
          ELSE {})
    ELSE IF endswith_any(p, {<<".","j","a","v","a">>, <<"p","o","m",".","x","m","l">>, <<"b","u","i","l","d",".","g","r","a","d","l","e">>, <<"b","u","i","l","d",".","g","r","a","d","l","e",".","k","t","s">>})
    THEN {<<"J","a","v","a">>} \cup (IF contains(p, <<"s","p","r","i","n","g">>) THEN {<<"S","p","r","i","n","g">>} ELSE {})
    ELSE IF endswith_any(p, {<<".","k","t">>, <<".","k","t","s">>}) THEN {<<"K","o","t","l","i","n">>}
    ELSE IF endswith_any(p, {<<".","s","c","a","l","a">>, <<"b","u","i","l","d",".","s","b","t">>}) THEN {<<"S","c","a","l","a">>}
    ELSE IF endswith_any(p, {<<".","g","o">>, <<"g","o",".","m","o","d">>, <<"g","o",".","s","u","m">>}) THEN {<<"G","o">>}
    ELSE IF endswith_any(p, {<<".","r","s">>, <<"c","a","r","g","o",".","t","o","m","l">>}) THEN {<<"R","u","s","t">>}
    ELSE IF endswith_any(p, {<<".","c","p","p">>, <<".","c","c">>, <<".","c","x","x">>, <<"c","m","a","k","e","l","i","s","t","s",".","t","x","t">>}) THEN {<<"C","+","+">>}
    ELSE IF endswith(p, <<".","c">>) THEN {<<"C">>}
    ELSE IF endswith_any(p, {<<".","c","s">>, <<".","c","s","p","r","o","j">>})
    THEN {<<"C","#">>} \cup (IF contains(p, <<"d","o","t","n","e","t">>) THEN {<<".","N","E","T">>} ELSE {})
    ELSE IF endswith_any(p, {<<".","p","h","p">>, <<"c","o","m","p","o","s","e","r",".","j","s","o","n">>})
    THEN {<<"P","H","P">>} \cup (IF contains(p, <<"l","a","r","a","v","e","l">>) THEN {<<"L","a","r","a","v","e","l">>} ELSE {})
    ELSE IF endswith_any(p, {<<".","s","w","i","f","t">>, <<"p","o","d","f","i","l","e">>}) THEN {<<"S","w","i","f","t">>}
    ELSE IF endswith(p, <<".","s","q","l">>) \/ contains(p, <<"/","m","i","g","r","a","t","i","o","n","s","/">>) \/ contains(p, <<"/","s","c","h","e","m","a","/">>)
    THEN {<<"S","Q","L">>}
    ELSE IF contains(p, <<"d","b","t","_","p","r","o","j","e","c","t",".","y","m","l">>) THEN {<<"d","b","t">>}
    ELSE IF endswith_any(p, {<<".","p","b","i","x">>, <<".","p","b","i","t">>}) THEN {<<"P","o","w","e","r"," ","B","I">>}
    ELSE IF endswith_any(p, {<<".","t","w","b">>, <<".","t","w","b","x">>, <<".","h","y","p","e","r">>, <<".","t","d","s">>, <<".","t","d","s","x">>}) THEN {<<"T","a","b","l","e","a","u">>}
    ELSE IF endswith(p, <<".","t","f">>) THEN {<<"T","e","r","r","a","f","o","r","m">>}
    ELSE IF contains(p, <<"c","l","o","u","d","f","o","r","m","a","t","i","o","n">>) \/ (endswith(p, <<".","y","a","m","l">>) /\ contains(p, <<"a","w","s">>))
    THEN {<<"C","l","o","u","d","F","o","r","m","a","t","i","o","n">>}
    ELSE IF contains(p, <<"b","i","c","e","p">>) THEN {<<"A","z","u","r","e"," ","B","i","c","e","p">>}
    ELSE IF contains(p, <<"c","d","k">>) THEN {<<"A","W","S"," ","C","D","K">>}
    ELSE IF contains(p, <<"l","a","n","g","g","r","a","p","h">>) THEN {<<"L","a","n","g","G","r","a","p","h">>}
    ELSE IF contains(p, <<"l","a","n","g","c","h","a","i","n">>) THEN {<<"L","a","n","g","C","h","a","i","n">>}
    ELSE IF contains(p, <<"o","p","e","n","a","i">>) THEN {<<"O","p","e","n","A","I">>}
    ELSE IF contains(p, <<"d","o","c","k","e","r","f","i","l","e">>) THEN {<<"D","o","c","k","e","r">>}
    ELSE IF contains(p, <<"d","o","c","k","e","r","-","c","o","m","p","o","s","e">>) THEN {<<"D","o","c","k","e","r"," ","C","o","m","p","o","s","e">>}
    ELSE IF contains(p, <<"s","e","r","v","e","r","l","e","s","s",".","y","m","l">>) THEN {<<"S","e","r","v","e","r","l","e","s","s">>}
    ELSE IF contains(p, <<".","g","i","t","h","u","b","/","w","o","r","k","f","l","o","w","s">>) THEN {<<"G","i","t","H","u","b"," ","A","c","t","i","o","n","s">>}
    ELSE {}

\* code points, for sorted(): the characters of the labels in ASCII order
ascii_order ==
    <<" ", "#", "+", ".",
      "A", "B", "C", "D", "E", "F", "G", "H", "I", "J", "K", "L", "M",
      "N", "O", "P", "Q", "R", "S", "T", "U", "V", "W", "X", "Y", "Z",
      "a", "b", "c", "d", "e", "f", "g", "h", "i", "j", "k", "l", "m",
      "n", "o", "p", "q", "r", "s", "t", "u", "v", "w", "x", "y", "z">>

ord(c) == CHOOSE i \in 1..Len(ascii_order) : ascii_order[i] = c

\* a < b for Python strings
RECURSIVE str_lt(_, _)
str_lt(a, b) ==
    IF b = <<>> THEN FALSE
    ELSE IF a = <<>> THEN TRUE
    ELSE IF a[1] = b[1] THEN str_lt(Tail(a), Tail(b))
    ELSE ord(a[1]) < ord(b[1])

\* defective variant: the labels come in descending order
RECURSIVE sorted_descending(_)
sorted_descending(S) ==
    IF S = {} THEN <<>>
    ELSE LET m == CHOOSE x \in S : \A y \in S \ {x} : str_lt(y, x)
         IN  <<m>> \o sorted_descending(S \ {m})

\* sorted(tech_stack)
RECURSIVE sorted(_)
sorted(S) ==
    IF S = {} THEN <<>>
    ELSE LET m == CHOOSE x \in S : \A y \in S \ {x} : str_lt(x, y)
         IN  <<m>> \o sorted(S \ {m})

\* ", ".join(labels)
RECURSIVE join(_)
join(labels) ==
    IF labels = <<>> THEN <<>>
    ELSE IF Len(labels) = 1 THEN labels[1]
    ELSE labels[1] \o <<","," ">> \o join(Tail(labels))

detect_signals(paths) ==
    LET low == [i \in 1..Len(paths) |-> lower(paths[i])]
        any(Q(_)) == \E i \in 1..Len(low) : Q(low[i])
        t_tests(p) ==
            startswith_any(p, {<<"t","e","s","t","/">>, <<"t","e","s","t","s","/">>, <<"_","_","t","e","s","t","s","_","_","/">>, <<"s","p","e","c","/">>})
            \/ endswith_any(p, {<<"_","t","e","s","t",".","p","y">>, <<".","s","p","e","c",".","t","s">>, <<".","t","e","s","t",".","t","s">>, <<".","t","e","s","t",".","j","s">>,
                                <<".","t","e","s","t",".","p","y">>, <<"_","s","p","e","c",".","r","b">>, <<".","s","p","e","c",".","r","b">>})
        t_actions(p) == startswith(p, <<".","g","i","t","h","u","b","/","w","o","r","k","f","l","o","w","s","/">>)
        t_ci(p) == startswith_any(p, {<<".","c","i","r","c","l","e","c","i","/">>, <<".","g","i","t","l","a","b","-","c","i">>, <<"a","z","u","r","e","-","p","i","p","e","l","i","n","e","s">>,
                                      <<"j","e","n","k","i","n","s","f","i","l","e">>})
        t_lint(p) == p \in lint_files \/ endswith(p, <<".","e","s","l","i","n","t","r","c",".","j","s">>)
                     \/ endswith(p, <<".","p","r","e","t","t","i","e","r","r","c",".","j","s","o","n">>)
        t_precommit(p) == p = <<".","p","r","e","-","c","o","m","m","i","t","-","c","o","n","f","i","g",".","y","a","m","l">>
        t_dockerfile(p) == endswith(p, <<"d","o","c","k","e","r","f","i","l","e">>) \/ p = <<"d","o","c","k","e","r","f","i","l","e">>
        t_compose(p) == endswith(p, <<"d","o","c","k","e","r","-","c","o","m","p","o","s","e",".","y","m","l">>)
                        \/ endswith(p, <<"d","o","c","k","e","r","-","c","o","m","p","o","s","e",".","y","a","m","l">>)
        t_makefile(p) == p = <<"m","a","k","e","f","i","l","e">>
        t_coc(p) == p \in {<<"c","o","d","e","_","o","f","_","c","o","n","d","u","c","t",".","m","d">>, <<"c","o","d","e","-","o","f","-","c","o","n","d","u","c","t",".","m","d">>,
                           <<".","g","i","t","h","u","b","/","c","o","d","e","_","o","f","_","c","o","n","d","u","c","t",".","m","d">>}
        t_contributing(p) == p \in {<<"c","o","n","t","r","i","b","u","t","i","n","g",".","m","d">>, <<"c","o","n","t","r","i","b","u","t","i","n","g",".","r","s","t">>,
                                    <<".","g","i","t","h","u","b","/","c","o","n","t","r","i","b","u","t","i","n","g",".","m","d">>}
        t_license(p) == startswith(p, <<"l","i","c","e","n","s","e">>) \/ startswith(p, <<"l","i","c","e","n","c","e">>)
        t_security(p) == p \in {<<".","g","i","t","h","u","b","/","s","e","c","u","r","i","t","y",".","m","d">>, <<"s","e","c","u","r","i","t","y",".","m","d">>, <<"s","e","c","u","r","i","t","y",".","r","s","t">>}
        t_issue(p) == startswith(p, <<".","g","i","t","h","u","b","/","i","s","s","u","e","_","t","e","m","p","l","a","t","e">>)
                      \/ contains(p, <<".","g","i","t","h","u","b","/","I","S","S","U","E","_","T","E","M","P","L","A","T","E">>)
        t_pr(p) == startswith(p, <<".","g","i","t","h","u","b","/","p","u","l","l","_","r","e","q","u","e","s","t","_","t","e","m","p","l","a","t","e">>)
                   \/ contains(p, <<".","g","i","t","h","u","b","/","P","U","L","L","_","R","E","Q","U","E","S","T","_","T","E","M","P","L","A","T","E">>)
        t_changelog(p) == startswith_any(p, {<<"c","h","a","n","g","e","l","o","g">>, <<"c","h","a","n","g","e","s">>, <<"h","i","s","t","o","r","y">>})
        t_docs(p) == startswith_any(p, {<<"d","o","c","s","/">>, <<"d","o","c","u","m","e","n","t","a","t","i","o","n","/">>})
        t_readme(p) == startswith(p, <<"r","e","a","d","m","e">>)
        t_pytest(p) == endswith(p, <<"p","y","t","e","s","t",".","i","n","i">>) \/ endswith(p, <<"c","o","n","f","t","e","s","t",".","p","y">>)
                       \/ endswith(p, <<"p","y","t","e","s","t",".","i","n","i">>)
        t_jest(p) == endswith_any(p, {<<"j","e","s","t",".","c","o","n","f","i","g",".","j","s">>, <<"j","e","s","t",".","c","o","n","f","i","g",".","t","s">>,
                                      <<"j","e","s","t",".","c","o","n","f","i","g",".","j","s","o","n">>})
        t_vitest(p) == endswith_any(p, {<<"v","i","t","e","s","t",".","c","o","n","f","i","g",".","t","s">>, <<"v","i","t","e","s","t",".","c","o","n","f","i","g",".","j","s">>})
        t_mocha(p) == endswith_any(p, {<<"m","o","c","h","a",".","o","p","t","s">>, <<".","m","o","c","h","a","r","c",".","j","s","o","n">>, <<".","m","o","c","h","a","r","c",".","j","s">>})
        t_rspec(p) == endswith_any(p, {<<"s","p","e","c","_","h","e","l","p","e","r",".","r","b">>, <<"t","e","s","t","_","h","e","l","p","e","r",".","r","b">>})
        t_circleci(p) == startswith(p, <<".","c","i","r","c","l","e","c","i","/">>)
        t_gitlab(p) == startswith(p, <<".","g","i","t","l","a","b","-","c","i">>)
        t_azure(p) == contains(p, <<"a","z","u","r","e","-","p","i","p","e","l","i","n","e","s">>)
        t_jenkins(p) == contains(p, <<"j","e","n","k","i","n","s","f","i","l","e">>)
        t_travis(p) == contains(p, <<"t","r","a","v","i","s",".","y","m","l">>)
        has_tests == any(t_tests)
        has_actions == any(t_actions)
        has_ci == has_actions \/ any(t_ci)
        has_lint == any(t_lint)
        has_precommit == any(t_precommit)
        has_dockerfile == any(t_dockerfile)
        has_docker_compose == any(t_compose)
        has_makefile == any(t_makefile)
        has_code_of_conduct == any(t_coc)
        has_contributing == any(t_contributing)
        has_license == any(t_license)
        has_security_policy == any(t_security)
        has_issue_templates == any(t_issue)
        has_pr_templates == any(t_pr)
        has_changelog == any(t_changelog)
        has_docs == any(t_docs)
        has_readme == any(t_readme)
        tech_stack == UNION {tech_labels(low[i]) : i \in 1..Len(low)}
        detected_test_framework ==
            IF any(t_pytest) THEN <<"p","y","t","e","s","t">>
            ELSE IF any(t_jest) THEN <<"j","e","s","t">>
            ELSE IF any(t_vitest) THEN <<"v","i","t","e","s","t">>
            ELSE IF any(t_mocha) THEN <<"m","o","c","h","a">>
            ELSE IF any(t_rspec) THEN <<"r","s","p","e","c">>
            ELSE <<>>
        detected_ci ==
            IF has_actions THEN <<"g","i","t","h","u","b","_","a","c","t","i","o","n","s">>
            ELSE IF any(t_circleci) THEN <<"c","i","r","c","l","e","c","i">>
            ELSE IF any(t_gitlab) THEN <<"g","i","t","l","a","b","_","c","i">>
            ELSE IF any(t_azure) THEN <<"a","z","u","r","e","_","p","i","p","e","l","i","n","e","s">>
            ELSE IF any(t_jenkins) THEN <<"j","e","n","k","i","n","s">>
            ELSE IF any(t_travis) THEN <<"t","r","a","v","i","s">>
            ELSE <<>>
        organization_items ==
            <<has_code_of_conduct, has_contributing, has_license, has_security_policy,
              has_issue_templates, has_pr_templates, has_changelog, has_docs, has_readme>>
        coding_standards_items == <<has_tests, has_lint, has_precommit, has_ci>>
        automation_items ==
            <<has_actions, has_ci, has_precommit, has_dockerfile, has_docker_compose>>
        sum(items) == Cardinality({i \in 1..Len(items) : items[i]})
    IN  [ has_tests |-> int(has_tests),
          has_github_actions |-> int(has_actions),
          has_ci_config |-> int(has_ci),
          has_lint_config |-> int(has_lint),
          has_precommit |-> int(has_precommit),
          has_dockerfile |-> int(has_dockerfile),
          has_docker_compose |-> int(has_docker_compose),
          has_makefile |-> int(has_makefile),
          has_code_of_conduct |-> int(has_code_of_conduct),
          has_contributing |-> int(has_contributing),
          has_license |-> int(has_license),
          has_security_policy |-> int(has_security_policy),
          has_issue_templates |-> int(has_issue_templates),
          has_pr_templates |-> int(has_pr_templates),
          has_changelog |-> int(has_changelog),
          has_docs |-> int(has_docs),
          detected_test_framework |-> detected_test_framework,
          detected_ci |-> detected_ci,
          organization_score |-> round1(sum(organization_items), Len(organization_items)),
          coding_standards_score |->
              round1(sum(coding_standards_items), Len(coding_standards_items)),
          automation_score |-> round1(sum(automation_items), Len(automation_items)),
          tech_stack |-> IF tech_stack # {} THEN join(sorted(tech_stack)) ELSE <<>>,
          signals_json |->
              [ total_paths |-> Len(paths),
                sample_paths |-> SubSeq(paths, 1, IF Len(paths) < SampleLimit
                                                  THEN Len(paths) ELSE SampleLimit) ] ]

(***************************************************************************)
(* The source (the GitHub API) as the run sees it.  A run reads the source *)
(* in one of its states (snapshots); what a call returns is a function of  *)
(* the snapshot, whether the call fails is chosen per call.                *)
(***************************************************************************)
RepoNames == <<"api", "web", "infra", "docs">>
RepoSet == {RepoNames[k] : k \in 1..Len(RepoNames)}
Shas == <<"sha1", "sha2", "sha3", "sha4">>

RECURSIVE take(_, _)
take(s, n) == IF n <= 0 \/ s = <<>> THEN <<>> ELSE <<Head(s)>> \o take(Tail(s), n - 1)

odd(v) == v % 2 = 1

\* GET /users/{user}/repos: the names, in the order the source lists them
source_repos(v) ==
    IF odd(v) THEN take(RepoNames, MaxRepos) ELSE Tail(take(RepoNames, MaxRepos))

\* one item of the repository list
source_repo_item(u, name, v) ==
    [ name |-> name,
      default_branch |-> IF odd(v) THEN None ELSE "dev",
      description |-> IF odd(v) THEN "first" ELSE None,
      language |-> IF odd(v) THEN "Python" ELSE "Go",
      html_url |-> <<"https://github.com", u, name, v>>,
      pushed_at |-> IF odd(v) THEN "2024-01-03" ELSE "2024-02-03",
      created_at |-> IF odd(v) THEN "2024-01-01" ELSE "2024-02-01",
      updated_at |-> IF odd(v) THEN "2024-01-02" ELSE "2024-02-02",
      stargazers_count |-> v,
      forks_count |-> v + 1,
      watchers_count |-> v + 2,
      open_issues_count |-> v + 3,
      size |-> 10 * v,
      topics |-> IF odd(v) THEN <<>> ELSE <<"ml">>,
      license |-> IF odd(v) THEN [name |-> "MIT"] ELSE [null |-> TRUE],
      archived |-> ~odd(v),
      fork |-> odd(v) ]

\* GET /repos/{user}/{repo}/readme
source_readme(name, v) ==
    [content |-> IF odd(v) THEN <<"base64", <<"u","s","e","s"," ","f","a","s","t","a","p","i">>>> ELSE <<"base64", <<"m","o","v","e","d"," ","t","o"," ","g","o">>>>]

\* GET .../git/trees/{sha}?recursive=1: the paths of the tree
source_tree(name, v) ==
    IF name = RepoNames[1]
    THEN << <<"p","y","p","r","o","j","e","c","t",".","t","o","m","l">>, <<"a","p","p","/","m","a","i","n",".","p","y">>, <<"t","e","s","t","s","/","t","e","s","t","_","a","p","p",".","p","y">>, <<"r","u","f","f",".","t","o","m","l">> >>
    ELSE IF odd(v)
    THEN << <<"t","e","s","t","s","/","t","e","s","t","_","f","o","o",".","p","y">>, <<".","g","i","t","h","u","b","/","w","o","r","k","f","l","o","w","s","/","c","i",".","y","m","l">>, <<"D","o","c","k","e","r","f","i","l","e">>,
            <<"R","E","A","D","M","E",".","m","d">>, <<"L","I","C","E","N","S","E">> >>
    ELSE << <<"s","r","c","/","m","a","i","n",".","g","o">>, <<"g","o",".","m","o","d">> >>

\* GET /repos/{user}/{repo}/commits: all the commits of the repository
source_commits(name, v) ==
    IF name = RepoNames[1] THEN take(Shas, MaxSourceCommits)
    ELSE take(Shas, MaxSourceCommits - 1)

\* GET /repos/{user}/{repo}/commits/{sha}
source_commit_details(name, sha, v) ==
    [ sha |-> sha,
      commit |-> [ author |-> [date |-> IF odd(v) THEN "2024-01-05" ELSE "2024-02-05",
                               name |-> IF odd(v) THEN "Ann" ELSE "Ann B."],
                   message |-> IF odd(v) THEN "initial" ELSE "initial (amended)" ],
      author |-> IF odd(v) THEN [login |-> "ann"] ELSE [null |-> TRUE],
      files |-> IF odd(v) THEN <<"a.py">> ELSE <<"a.py", "b.py">>,
      stats |-> [additions |-> 10 * v, deletions |-> v] ]

\* page `page` (from 1) of list s, `size` items a page
page_of(s, page, size) ==
    SubSeq(s, (page - 1) * size + 1, IF page * size < Len(s) THEN page * size ELSE Len(s))

(***************************************************************************)
(* Persistence layer (common.py).  A table is the set of its rows; a row   *)
(* is a record of its columns.                                             *)
(***************************************************************************)
DbModes == {"postgres", "sqlite"}

\* INSERT INTO ... VALUES row ON CONFLICT(key) DO UPDATE SET set_cols = excluded
on_conflict_do_update(table, key, set_cols, row) ==
    LET conflict == {t \in table : \A c \in key : t[c] = row[c]}
    IN  IF conflict = {} THEN table \cup {row}
        ELSE (table \ conflict)
             \cup {[c \in DOMAIN t |-> IF c \in set_cols THEN row[c] ELSE t[c]] : t \in conflict}

\* the rows of a table under a key
rows_of(table, key, row) == {t \in table : \A c \in key : t[c] = row[c]}

\* upsert(): whether the statement is applied.  A statement fails when the
\* store raises on it (fault), and on Postgres also when an earlier statement
\* of the same connection failed inside the transaction: upsert() commits
\* after a success and never rolls back after a failure, so the connection
\* stays in the aborted transaction.
upsert(mode, aborted, fault) ==
    [ applied |-> ~fault /\ ~(mode = "postgres" /\ aborted),
      aborted |-> IF mode = "postgres" THEN aborted \/ fault ELSE FALSE ]

\* x or d, for text
or_text(x, d) == IF x = None \/ x = "" THEN d ELSE x

\* json.dumps
json_dumps(x) == <<"json", x>>

\* base64.b64decode(content).decode("utf-8")
b64decode(c) == c[2]

RepoKey == {"user", "repo"}
RepoSetCols ==
    { "default_branch", "description", "language", "html_url", "readme_text",
      "last_ingested_at", "pushed_at", "created_at", "updated_at", "stargazers_count",
      "forks_count", "watchers_count", "open_issues_count", "size", "topics",
      "license_name", "is_archived", "is_fork" }

\* the row ingest() builds for a repository from its list item r
repo_row(user, r, readme_text, now) ==
    [ user |-> user,
      repo |-> r.name,
      default_branch |-> or_text(r.default_branch, "main"),
      description |-> or_text(r.description, ""),
      language |-> or_text(r.language, ""),
      html_url |-> r.html_url,
      readme_text |-> readme_text,
      last_ingested_at |-> now,
      pushed_at |-> or_text(r.pushed_at, ""),
      created_at |-> or_text(r.created_at, ""),
      updated_at |-> or_text(r.updated_at, ""),
      stargazers_count |-> r.stargazers_count,
      forks_count |-> r.forks_count,
      watchers_count |-> r.watchers_count,
      open_issues_count |-> r.open_issues_count,
      size |-> r.size,
      topics |-> IF r.topics # <<>> THEN json_dumps(r.topics) ELSE <<>>,
      license_name |-> IF r.license # [null |-> TRUE] THEN r.license.name ELSE "",
      is_archived |-> IF r.archived THEN 1 ELSE 0,
      is_fork |-> IF r.fork THEN 1 ELSE 0 ]

\* defective variant: readme_text is missing from the SET list
upsert_repos_stale_readme(table, row) ==
    on_conflict_do_update(table, RepoKey, RepoSetCols \ {"readme_text"}, row)

upsert_repos(table, row) == on_conflict_do_update(table, RepoKey, RepoSetCols, row)

SignalsKey == {"user", "repo"}
SignalsSetCols ==
    { "has_tests", "has_github_actions", "has_ci_config", "has_lint_config",
      "has_precommit", "has_dockerfile", "has_docker_compose", "has_makefile",
      "detected_test_framework", "detected_ci", "has_code_of_conduct",
      "has_contributing", "has_license", "has_security_policy", "has_issue_templates",
      "has_pr_templates", "has_changelog", "has_docs", "organization_score",
      "coding_standards_score", "automation_score", "tech_stack", "signals_json" }

\* the row ingest() builds from the classifier's output
signals_row(user, repo, sig) ==
    [ user |-> user,
      repo |-> repo,
      has_tests |-> sig.has_tests,
      has_github_actions |-> sig.has_github_actions,
      has_ci_config |-> sig.has_ci_config,
      has_lint_config |-> sig.has_lint_config,
      has_precommit |-> sig.has_precommit,
      has_dockerfile |-> sig.has_dockerfile,
      has_docker_compose |-> sig.has_docker_compose,
      has_makefile |-> sig.has_makefile,
      detected_test_framework |-> sig.detected_test_framework,
      detected_ci |-> sig.detected_ci,
      has_code_of_conduct |-> sig.has_code_of_conduct,
      has_contributing |-> sig.has_contributing,
      has_license |-> sig.has_license,
      has_security_policy |-> sig.has_security_policy,
      has_issue_templates |-> sig.has_issue_templates,
      has_pr_templates |-> sig.has_pr_templates,
      has_changelog |-> sig.has_changelog,
      has_docs |-> sig.has_docs,
      organization_score |-> sig.organization_score,
      coding_standards_score |-> sig.coding_standards_score,
      automation_score |-> sig.automation_score,
      tech_stack |-> sig.tech_stack,
      signals_json |-> json_dumps(sig.signals_json) ]

\* defective variant: ON CONFLICT DO NOTHING
upsert_repo_signals_do_nothing(table, row) ==
    on_conflict_do_update(table, SignalsKey, {}, row)

upsert_repo_signals(table, row) ==
    on_conflict_do_update(table, SignalsKey, SignalsSetCols, row)

CommitKey == {"user", "repo", "sha"}
CommitSetCols ==
    { "authored_at", "message", "author_name", "author_login", "files_changed",
      "additions", "deletions" }

\* the row ingest() builds from the details of a commit
commit_row(user, repo, sha, details) ==
    [ user |-> user,
      repo |-> repo,
      sha |-> sha,
      authored_at |-> details.commit.author.date,
      message |-> details.commit.message,
      author_name |-> details.commit.author.name,
      author_login |-> IF details.author # [null |-> TRUE] THEN details.author.login ELSE "",
      files_changed |-> Len(details.files),
      additions |-> details.stats.additions,
      deletions |-> details.stats.deletions,
      diff_summary |-> "" ]

\* defective variant: message is missing from the SET list
upsert_commits_stale_message(table, row) ==
    on_conflict_do_update(table, CommitKey, CommitSetCols \ {"message"}, row)

\* defective variant: the commits of the repository are replaced by the row
upsert_commits_replacing(table, row) ==
    {t \in table : t.user # row.user \/ t.repo # row.repo} \cup {row}

upsert_commits(table, row) == on_conflict_do_update(table, CommitKey, CommitSetCols, row)

UserKey == {"user_name"}
UserSetCols == {"last_ingested_at", "repo_count", "status", "error"}

\* upsert_user(): the row and the statement
user_row(user_name, repo_count, status, error, now) ==
    [ user_name |-> user_name,
      last_ingested_at |-> now,
      repo_count |-> repo_count,
      status |-> status,
      error |-> error ]

upsert_user(table, row) == on_conflict_do_update(table, UserKey, UserSetCols, row)

(***************************************************************************)
(* State.                                                                  *)
(***************************************************************************)
VARIABLES
    db_mode,        \* get_db_mode(): the backend of this process
    users,          \* table users
    repos,          \* table repos
    repo_signals,   \* table repo_signals
    commits,        \* table commits
    queue,          \* work queue of the executor: the submitted jobs
    nreq,           \* number of POST /ingest requests so far
    faults,         \* number of calls that have failed so far
    last_attempt,   \* per (user, repo), the most recent ingestion attempt: "none";
                    \* "failed", its tree listing failed; "ok", it succeeded;
                    \* "unstored", it succeeded and the signals upsert raised
    job,            \* per worker thread: the run it executes
    environ,        \* os.environ of the process: DB_MODE, GITHUB_TOKEN
    reply,          \* the response to the last request or tool call
    cls_paths,      \* the path list handed to the classifier
    cls_sig         \* the record the classifier returned for it

vars == <<db_mode, users, repos, repo_signals, commits, queue, nreq, faults, last_attempt, job,
          environ, reply, cls_paths, cls_sig>>

\* str(e) of the exceptions that end a run
ErrConnect == "DATABASE_URL not set for Postgres mode"
ErrListRepos == "list_repos: HTTP error"
ErrUpsertRepo == "repos upsert: storage error"
ErrNameError == "name 'db_path' is not defined"

\* How the last upsert on a connection went.  result: "applied"; "fault",
\* the store raised on it; "refused", the store raised on it only because
\* the transaction was aborted before it.  conflict: the row the statement
\* met under its key: "none", "same" values, "different" values.
NoStmt == [table |-> "none", result |-> "none", conflict |-> "none"]

\* a worker thread with no job
Idle ==
    [ pc |-> "idle", id |-> 0, user |-> None, snap |-> 0, max_commits |-> 0,
      page |-> 0, repos |-> <<>>, i |-> 0, readme_text |-> <<>>, sig |-> <<>>,
      commits |-> <<>>, j |-> 0, err |-> None,
      aborted |-> FALSE,        \* conn: inside a failed transaction
      stmt |-> NoStmt ]         \* the last upsert on conn and how it went

\* no request has been answered yet
NoReply == [route |-> "none", user |-> None, code |-> 0, body |-> None]

\* the github_token a request for user u carries
token_of(u) == <<"token", u>>

\* DB_MODE of the process environment when the service starts: main.py
\* defaults it to postgres; get_db_mode() follows it unless secrets.env of
\* the package says sqlite
EnvModes(mode) == IF mode = "postgres" THEN {"postgres"} ELSE DbModes

Init ==
    /\ db_mode \in DbModes
    /\ environ \in [DB_MODE : EnvModes(db_mode), GITHUB_TOKEN : {None}]
    /\ reply = NoReply
    /\ cls_paths = <<>>
    /\ cls_sig = <<>>
    /\ users = {}
    /\ repos = {}
    /\ repo_signals = {}
    /\ commits = {}
    /\ queue = <<>>
    /\ nreq = 0
    /\ faults = 0
    /\ last_attempt = [u \in Users, r \in RepoSet |-> "none"]
    /\ job = [w \in Workers |-> Idle]

\* datetime.now(timezone.utc).isoformat(): the clock is read as the serial
\* number of the request the write belongs to
now(id) == id

\* the outcomes a call may have: it may fail while the fault budget lasts
Outcomes == IF faults < MaxFaults THEN BOOLEAN ELSE {FALSE}

\* what an upsert of row meets under its key
conflict_of(table, key, row) ==
    IF rows_of(table, key, row) = {} THEN "none"
    ELSE IF row \in table THEN "same" ELSE "different"

stmt_of(name, table, key, row, fault, res) ==
    [ table |-> name,
      result |-> IF res.applied THEN "applied" ELSE IF fault THEN "fault" ELSE "refused",
      conflict |-> conflict_of(table, key, row) ]

(***************************************************************************)
(* POST /ingest (main.py ingest_user): record pending, hand the run to the *)
(* executor, return.  upsert_user() opens its own connection.  Usernames   *)
(* are interchangeable: they are numbered in the order of their first      *)
(* request.                                                                *)
(***************************************************************************)
\* defective variant: the run is not handed to the executor
ingest_user_not_submitting(u) ==
    /\ nreq < MaxRequests
    /\ \E k \in 1..Len(UserNames) : k <= nreq + 1 /\ u = UserNames[k]
    /\ nreq' = nreq + 1
    /\ \E fault \in Outcomes :
         /\ faults' = faults + int(fault)
         /\ IF upsert(db_mode, FALSE, fault).applied
            THEN /\ users' = upsert_user(users,
                                 user_row(u, 0, "pending", None, now(nreq + 1)))
                 /\ reply' = [route |-> "ingest", user |-> u, code |-> 200, body |-> "pending"]
            ELSE /\ UNCHANGED users
                 /\ reply' = [route |-> "ingest", user |-> u, code |-> 500, body |-> None]
    /\ UNCHANGED <<db_mode, last_attempt, repos, repo_signals, commits, job, queue,
                 environ, cls_paths, cls_sig>>

ingest_user(u) ==
    /\ nreq < MaxRequests
    /\ \E k \in 1..Len(UserNames) : k <= nreq + 1 /\ u = UserNames[k]
    /\ nreq' = nreq + 1
    /\ \E fault \in Outcomes :
         /\ faults' = faults + int(fault)
         /\ IF upsert(db_mode, FALSE, fault).applied
            THEN /\ users' = upsert_user(users,
                                 user_row(u, 0, "pending", None, now(nreq + 1)))
                 /\ queue' = Append(queue, [id |-> nreq + 1, user |-> u])
                 /\ reply' = [route |-> "ingest", user |-> u, code |-> 200, body |-> "pending"]
            ELSE \* HTTP 500, nothing submitted
                 /\ UNCHANGED <<users, queue>>
                 /\ reply' = [route |-> "ingest", user |-> u, code |-> 500, body |-> None]
    /\ UNCHANGED <<db_mode, last_attempt, repos, repo_signals, commits, job,
                 environ, cls_paths, cls_sig>>

(***************************************************************************)
(* run_ingestion_job and ingest(): one action per network call or upsert.  *)
(***************************************************************************)
\* the list item of the repository the run is at
cur_item(t) == source_repo_item(t.user, t.repos[t.i], t.snap)

\* defective variant: the README of the next repository is not waited for
next_repo_skipping_readme(t) ==
    IF t.i < Len(t.repos)
    THEN [t EXCEPT !.pc = "upsert_repo", !.i = @ + 1, !.readme_text = <<>>,
                   !.sig = <<>>, !.commits = <<>>, !.page = 0, !.j = 0]
    ELSE [t EXCEPT !.pc = "log_complete", !.readme_text = <<>>, !.sig = <<>>,
                   !.commits = <<>>, !.page = 0, !.j = 0]

\* head of `for r in repos`
next_repo(t) ==
    IF t.i < Len(t.repos)
    THEN [t EXCEPT !.pc = "fetch_readme", !.i = @ + 1, !.readme_text = <<>>,
                   !.sig = <<>>, !.commits = <<>>, !.page = 0, !.j = 0]
    ELSE [t EXCEPT !.pc = "log_complete", !.readme_text = <<>>, !.sig = <<>>,
                   !.commits = <<>>, !.page = 0, !.j = 0]

\* head of `for c in commits`, with the list list_commits returned
first_commit(t, cs) ==
    IF cs = <<>> THEN next_repo(t)
    ELSE [t EXCEPT !.pc = "fetch_commit_details", !.commits = cs, !.j = 1]

\* an exception leaves ingest(): control is in run_ingestion_job's handler
raise(t, e) == [t EXCEPT !.pc = "except", !.err = e]

\* The executor hands the job to a free thread (the threads are
\* interchangeable: the lowest free one takes it); ingest() connects
\* (connect, init_schema).  The run reads the source in one of the states it
\* has had so far (at most one new state per request).
run_ingestion_job(w) ==
    /\ job[w].pc = "idle"
    /\ \A w2 \in Workers : w2 < w => job[w2].pc # "idle"
    /\ queue # <<>>
    /\ queue' = Tail(queue)
    /\ environ' = [DB_MODE |-> "postgres", GITHUB_TOKEN |-> token_of(Head(queue).user)]
    /\ \E v \in Snapshots, fail \in Outcomes :
         LET t == [Idle EXCEPT !.id = Head(queue).id, !.user = Head(queue).user,
                               !.snap = v, !.max_commits = ApiMaxCommits]
         IN  /\ v <= Head(queue).id
             /\ faults' = faults + int(fail)
             /\ job' = [job EXCEPT ![w] =
                    IF fail THEN raise(t, ErrConnect)
                    ELSE [t EXCEPT !.pc = "list_repos", !.page = 1]]
    /\ UNCHANGED <<db_mode, last_attempt, users, repos, repo_signals, commits, nreq,
                 reply, cls_paths, cls_sig>>

\* list_repos: one page of the repository list
list_repos(w) ==
    LET t == job[w] IN
    /\ t.pc = "list_repos"
    /\ \E fail \in Outcomes :
         LET data == page_of(source_repos(t.snap), t.page, RepoPageSize)
         IN  /\ faults' = faults + int(fail)
             /\ job' = [job EXCEPT ![w] =
                    IF fail THEN raise(t, ErrListRepos)
                    ELSE IF data = <<>> THEN next_repo(t)
                    ELSE [t EXCEPT !.repos = @ \o data, !.page = @ + 1]]
    /\ UNCHANGED <<db_mode, last_attempt, users, repos, repo_signals, commits, queue, nreq,
                 environ, reply, cls_paths, cls_sig>>

\* defective variant: a failure of the README fetch leaves ingest()
fetch_readme_raising(w) ==
    LET t == job[w] IN
    /\ t.pc = "fetch_readme"
    /\ \E fail \in Outcomes :
         LET data == source_readme(t.repos[t.i], t.snap)
             text == IF data.content # <<>> THEN b64decode(data.content) ELSE <<>>
         IN  /\ faults' = faults + int(fail)
             /\ job' = [job EXCEPT ![w] =
                    IF fail THEN raise(t, "fetch_readme: HTTP error")
                    ELSE [t EXCEPT !.pc = "upsert_repo", !.readme_text = text]]
    /\ UNCHANGED <<db_mode, last_attempt, users, repos, repo_signals, commits, queue, nreq,
                 environ, reply, cls_paths, cls_sig>>

\* fetch_readme: the text, or "" when the call fails or the content is empty
fetch_readme(w) ==
    LET t == job[w] IN
    /\ t.pc = "fetch_readme"
    /\ \E fail \in Outcomes :
         LET data == source_readme(t.repos[t.i], t.snap)
             text == IF ~fail /\ data.content # <<>> THEN b64decode(data.content) ELSE <<>>
         IN  /\ faults' = faults + int(fail)
             /\ job' = [job EXCEPT ![w] =
                    [t EXCEPT !.pc = "upsert_repo", !.readme_text = text]]
    /\ UNCHANGED <<db_mode, last_attempt, users, repos, repo_signals, commits, queue, nreq,
                 environ, reply, cls_paths, cls_sig>>

\* defective variant: a failed repos upsert is swallowed and the run goes on
upsert_repo_swallowing(w) ==
    LET t == job[w]
        row == repo_row(t.user, cur_item(t), t.readme_text, now(t.id))
    IN
    /\ t.pc = "upsert_repo"
    /\ \E fault \in Outcomes :
         LET res == upsert(db_mode, t.aborted, fault)
             t2 == [t EXCEPT !.aborted = res.aborted,
                             !.stmt = stmt_of("repos", repos, RepoKey, row, fault, res),
                             !.pc = "list_tree"]
         IN  /\ faults' = faults + int(fault)
             /\ repos' = IF res.applied THEN upsert_repos(repos, row) ELSE repos
             /\ job' = [job EXCEPT ![w] = t2]
    /\ UNCHANGED <<db_mode, last_attempt, users, repo_signals, commits, queue, nreq,
                 environ, reply, cls_paths, cls_sig>>

\* the repos upsert of ingest(): outside any try
upsert_repo(w) ==
    LET t == job[w]
        row == repo_row(t.user, cur_item(t), t.readme_text, now(t.id))
    IN
    /\ t.pc = "upsert_repo"
    /\ \E fault \in Outcomes :
         LET res == upsert(db_mode, t.aborted, fault)
             t2 == [t EXCEPT !.aborted = res.aborted,
                             !.stmt = stmt_of("repos", repos, RepoKey, row, fault, res)]
         IN  /\ faults' = faults + int(fault)
             /\ IF res.applied
                THEN /\ repos' = upsert_repos(repos, row)
                     /\ job' = [job EXCEPT ![w] = [t2 EXCEPT !.pc = "list_tree"]]
                ELSE /\ repos' = repos
                     /\ job' = [job EXCEPT ![w] = raise(t2, ErrUpsertRepo)]
    /\ UNCHANGED <<db_mode, last_attempt, users, repo_signals, commits, queue, nreq,
                 environ, reply, cls_paths, cls_sig>>

\* detect_signals(paths) for the trees the source holds (evaluated once)
signals_of_tree ==
    [ name \in RepoSet, v \in Snapshots |->
        detect_signals(source_tree(name, v)) ]

\* defective variant: the failure of list_tree is not caught
list_tree_uncaught(w) ==
    LET t == job[w] IN
    /\ t.pc = "list_tree"
    /\ \E fail \in Outcomes :
         /\ faults' = faults + int(fail)
         /\ last_attempt' = [last_attempt EXCEPT ![t.user, t.repos[t.i]] =
                              IF fail THEN "failed" ELSE "ok"]
         /\ job' = [job EXCEPT ![w] =
                IF fail THEN raise(t, "list_tree: HTTP error")
                ELSE [t EXCEPT !.pc = "upsert_signals",
                               !.sig = signals_of_tree[t.repos[t.i], t.snap]]]
    /\ UNCHANGED <<db_mode, users, repos, repo_signals, commits, queue, nreq,
                 environ, reply, cls_paths, cls_sig>>

\* defective variant: a failure of list_tree deletes the signals row of the repository
list_tree_deleting(w) ==
    LET t == job[w] IN
    /\ t.pc = "list_tree"
    /\ \E fail \in Outcomes :
         /\ faults' = faults + int(fail)
         /\ last_attempt' = [last_attempt EXCEPT ![t.user, t.repos[t.i]] =
                              IF fail THEN "failed" ELSE "ok"]
         /\ repo_signals' =
                IF fail THEN {x \in repo_signals : ~(x.user = t.user /\ x.repo = t.repos[t.i])}
                ELSE repo_signals
         /\ job' = [job EXCEPT ![w] =
                IF fail THEN [t EXCEPT !.pc = "list_commits", !.page = 1]
                ELSE [t EXCEPT !.pc = "upsert_signals",
                               !.sig = signals_of_tree[t.repos[t.i], t.snap]]]
    /\ UNCHANGED <<db_mode, users, repos, commits, queue, nreq,
                 environ, reply, cls_paths, cls_sig>>

\* list_tree and detect_signals; a failure is logged and skips the signals
list_tree(w) ==
    LET t == job[w] IN
    /\ t.pc = "list_tree"
    /\ \E fail \in Outcomes :
         /\ faults' = faults + int(fail)
         /\ last_attempt' = [last_attempt EXCEPT ![t.user, t.repos[t.i]] =
                              IF fail THEN "failed" ELSE "ok"]
         /\ job' = [job EXCEPT ![w] =
                IF fail THEN [t EXCEPT !.pc = "list_commits", !.page = 1]
                ELSE [t EXCEPT !.pc = "upsert_signals",
                               !.sig = signals_of_tree[t.repos[t.i], t.snap]]]
    /\ UNCHANGED <<db_mode, users, repos, repo_signals, commits, queue, nreq,
                 environ, reply, cls_paths, cls_sig>>

\* the repo_signals upsert of ingest(): a failure is logged
upsert_signals(w) ==
    LET t == job[w]
        row == signals_row(t.user, t.repos[t.i], t.sig)
    IN
    /\ t.pc = "upsert_signals"
    /\ \E fault \in Outcomes :
         LET res == upsert(db_mode, t.aborted, fault)
         IN  /\ faults' = faults + int(fault)
             /\ repo_signals' = IF res.applied THEN upsert_repo_signals(repo_signals, row)
                                ELSE repo_signals
             /\ last_attempt' = IF res.applied THEN last_attempt
                                ELSE [last_attempt EXCEPT ![t.user, t.repos[t.i]] = "unstored"]
             /\ job' = [job EXCEPT ![w] =
                    [t EXCEPT !.pc = "list_commits", !.page = 1, !.sig = <<>>,
                              !.aborted = res.aborted,
                              !.stmt = stmt_of("repo_signals", repo_signals, SignalsKey,
                                               row, fault, res)]]
    /\ UNCHANGED <<db_mode, users, repos, commits, queue, nreq,
                 environ, reply, cls_paths, cls_sig>>

\* defective variant: list_commits returns all it has fetched
list_commits_untruncated(w) ==
    LET t == job[w] IN
    /\ t.pc = "list_commits"
    /\ IF Len(t.commits) >= t.max_commits
       THEN /\ faults' = faults
            /\ job' = [job EXCEPT ![w] = first_commit(t, t.commits)]
       ELSE \E fail \in Outcomes :
              LET batch == page_of(source_commits(t.repos[t.i], t.snap), t.page, PerPage)
                  all == t.commits \o batch
              IN  /\ faults' = faults + int(fail)
                  /\ job' = [job EXCEPT ![w] =
                         IF fail THEN next_repo(t)
                         ELSE IF batch = <<>> \/ Len(batch) < PerPage
                         THEN first_commit(t, all)
                         ELSE [t EXCEPT !.commits = all, !.page = @ + 1]]
    /\ UNCHANGED <<db_mode, last_attempt, users, repos, repo_signals, commits, queue, nreq,
                 environ, reply, cls_paths, cls_sig>>

\* list_commits: one turn of `while len(commits) < max_commits`
list_commits(w) ==
    LET t == job[w] IN
    /\ t.pc = "list_commits"
    /\ IF Len(t.commits) >= t.max_commits
       THEN /\ faults' = faults
            /\ job' = [job EXCEPT ![w] = first_commit(t, take(t.commits, t.max_commits))]
       ELSE \E fail \in Outcomes :
              LET batch == page_of(source_commits(t.repos[t.i], t.snap), t.page, PerPage)
                  all == t.commits \o batch
              IN  /\ faults' = faults + int(fail)
                  /\ job' = [job EXCEPT ![w] =
                         IF fail THEN next_repo(t)
                         ELSE IF batch = <<>> \/ Len(batch) < PerPage
                         THEN first_commit(t, take(all, t.max_commits))
                         ELSE [t EXCEPT !.commits = all, !.page = @ + 1]]
    /\ UNCHANGED <<db_mode, last_attempt, users, repos, repo_signals, commits, queue, nreq,
                 environ, reply, cls_paths, cls_sig>>

\* fetch_commit_details of commit j; a failure is logged and ends the commit loop
fetch_commit_details(w) ==
    LET t == job[w] IN
    /\ t.pc = "fetch_commit_details"
    /\ \E fail \in Outcomes :
         /\ faults' = faults + int(fail)
         /\ job' = [job EXCEPT ![w] =
                IF fail THEN next_repo(t) ELSE [t EXCEPT !.pc = "upsert_commit"]]
    /\ UNCHANGED <<db_mode, last_attempt, users, repos, repo_signals, commits, queue, nreq,
                 environ, reply, cls_paths, cls_sig>>

\* the commits upsert of ingest(); a failure is logged and ends the commit loop
upsert_commit(w) ==
    LET t == job[w]
        sha == t.commits[t.j]
        row == commit_row(t.user, t.repos[t.i], sha,
                          source_commit_details(t.repos[t.i], sha, t.snap))
    IN
    /\ t.pc = "upsert_commit"
    /\ \E fault \in Outcomes :
         LET res == upsert(db_mode, t.aborted, fault)
             t2 == [t EXCEPT !.aborted = res.aborted,
                             !.stmt = stmt_of("commits", commits, CommitKey, row, fault, res)]
         IN  /\ faults' = faults + int(fault)
             /\ commits' = IF res.applied THEN upsert_commits(commits, row) ELSE commits
             /\ job' = [job EXCEPT ![w] =
                    IF res.applied /\ t.j < Len(t.commits)
                    THEN [t2 EXCEPT !.pc = "fetch_commit_details", !.j = @ + 1]
                    ELSE next_repo(t2)]
    /\ UNCHANGED <<db_mode, last_attempt, users, repos, repo_signals, queue, nreq,
                 environ, reply, cls_paths, cls_sig>>

\* LOGGER.info("Ingestion complete. DB=%s", db_path): db_path is not defined
log_complete(w) ==
    /\ job[w].pc = "log_complete"
    /\ job' = [job EXCEPT ![w] = raise(job[w], ErrNameError)]
    /\ UNCHANGED <<db_mode, last_attempt, users, repos, repo_signals, commits, queue, nreq, faults,
                 environ, reply, cls_paths, cls_sig>>

\* defective variant: the error text is not passed on
failed_row_without_error(t) == user_row(t.user, 0, "failed", None, now(t.id))

\* upsert_user(user_name, status="failed", repo_count=0, error=str(e))
failed_row(t) == user_row(t.user, 0, "failed", t.err, now(t.id))

\* except Exception of run_ingestion_job: record failed with str(e), on a
\* connection of its own; a failure of that upsert is logged.  The thread
\* is free again.
run_ingestion_job_except(w) ==
    LET t == job[w] IN
    /\ t.pc = "except"
    /\ \E fault \in Outcomes :
         /\ faults' = faults + int(fault)
         /\ users' = IF upsert(db_mode, FALSE, fault).applied
                     THEN upsert_user(users, failed_row(t))
                     ELSE users
    /\ job' = [job EXCEPT ![w] = Idle]
    /\ UNCHANGED <<db_mode, last_attempt, repos, repo_signals, commits, queue, nreq,
                 environ, reply, cls_paths, cls_sig>>

Next ==
    \/ \E u \in Users : ingest_user(u)
    \/ \E w \in Workers :
         \/ run_ingestion_job(w)
         \/ list_repos(w)
         \/ fetch_readme(w)
         \/ upsert_repo(w)
         \/ list_tree(w)
         \/ upsert_signals(w)
         \/ list_commits(w)
         \/ fetch_commit_details(w)
         \/ upsert_commit(w)
         \/ log_complete(w)
         \/ run_ingestion_job_except(w)

Spec == Init /\ [][Next]_vars

\* a step of the thread w of the executor
worker_step(w) ==
    \/ run_ingestion_job(w)
    \/ list_repos(w)
    \/ fetch_readme(w)
    \/ upsert_repo(w)
    \/ list_tree(w)
    \/ upsert_signals(w)
    \/ list_commits(w)
    \/ fetch_commit_details(w)
    \/ upsert_commit(w)
    \/ log_complete(w)
    \/ run_ingestion_job_except(w)

\* The service with its scheduling: a thread of the executor that can take
\* a step takes it in the end (each network or storage call returns or
\* raises, and the executor starts a queued job on a free thread).
SpecLive == Init /\ [][Next]_vars /\ \A w \in Workers : WF_vars(worker_step(w))

(***************************************************************************)
(* The command line (ingest.py, main()): one process runs ingest() for the *)
(* user and with the max_commits_per_repo of its configuration, on thread  *)
(* 1.  An exception that leaves ingest() ends the process; no handler      *)
(* writes the users table.  nreq counts the invocations.                   *)
(***************************************************************************)
\* max_commits_per_repo of the configuration: none, fewer than a page of the
\* source, a page, the default (more than any repository has)
MaxCommitsChoices == {0, PerPage - 1, PerPage, ApiMaxCommits}

main(w) ==
    /\ w = 1
    /\ job[w].pc = "idle"
    /\ nreq < MaxRequests
    /\ nreq' = nreq + 1
    /\ \E user \in Users, max_commits \in MaxCommitsChoices, v \in Snapshots,
          fail \in Outcomes :
         LET t == [Idle EXCEPT !.id = nreq + 1, !.user = user, !.snap = v,
                               !.max_commits = max_commits]
         IN  /\ v <= nreq + 1
             /\ faults' = faults + int(fail)
             /\ job' = [job EXCEPT ![w] =
                    IF fail THEN raise(t, ErrConnect)
                    ELSE [t EXCEPT !.pc = "list_repos", !.page = 1]]
    /\ UNCHANGED <<db_mode, last_attempt, users, repos, repo_signals, commits, queue,
                 environ, reply, cls_paths, cls_sig>>

\* asyncio.run(ingest(...)) raises: the process ends with the traceback
main_raises(w) ==
    /\ job[w].pc = "except"
    /\ job' = [job EXCEPT ![w] = Idle]
    /\ UNCHANGED <<db_mode, last_attempt, users, repos, repo_signals, commits, queue, nreq,
                 faults, environ, reply, cls_paths, cls_sig>>

NextCli ==
    \E w \in Workers :
         \/ main(w)
         \/ list_repos(w)
         \/ fetch_readme(w)
         \/ upsert_repo(w)
         \/ list_tree(w)
         \/ upsert_signals(w)
         \/ list_commits(w)
         \/ fetch_commit_details(w)
         \/ upsert_commit(w)
         \/ log_complete(w)
         \/ main_raises(w)

SpecCli == Init /\ [][NextCli]_vars

(***************************************************************************)
(* Tool layer (server.py): read operations on the store, served by a       *)
(* process of its own.  server.py takes its connection from                *)
(* _conn_for(user): get_db_path(user) (src/github-mcp/common.py), connect, *)
(* init_schema.  The model describes the tools with the connection open on *)
(* the store that holds the rows of the username.                          *)
(***************************************************************************)
\* the characters of a username
UserChars == [u \in Users |-> IF u = "alice" THEN <<"a","l","i","c","e">> ELSE <<"b","o","b">>]

\* str.strip(): without the blanks at both ends
RECURSIVE strip(_)
strip(s) ==
    IF s = <<>> THEN s
    ELSE IF Head(s) = " " THEN strip(Tail(s))
    ELSE IF s[Len(s)] = " " THEN strip(SubSeq(s, 1, Len(s) - 1))
    ELSE s

\* str.replace(a, b) for single characters
replace(s, a, b) == [i \in 1..Len(s) |-> IF s[i] = a THEN b ELSE s[i]]

\* get_db_path(user): the file of the store of a username (sqlite)
get_db_path(user) == replace(strip(UserChars[user]), "/", "_") \o <<".","d","b">>

\* _conn_for(user): the rows the connection sees.  sqlite: the rows in the
\* file of the username; postgres: the one shared store.  init_schema
\* creates the tables that are missing and touches no row.
_conn_for(user) ==
    LET visible(table) ==
            IF db_mode = "sqlite"
            THEN {x \in table : get_db_path(x.user) = get_db_path(user)}
            ELSE table
    IN  [repos |-> visible(repos), repo_signals |-> visible(repo_signals),
         commits |-> visible(commits)]

\* the empty dict
EmptyDict == <<>>

\* fetchone(...) or {}: the row of a point query, {} when there is none
fetchone_or_empty(rows) == IF rows = {} THEN EmptyDict ELSE CHOOSE x \in rows : TRUE

\* dict.get(k, default)
get(d, k, default) == IF k \in DOMAIN d THEN d[k] ELSE default

\* _safe_int, _safe_float: the stored numbers are numbers already
_safe_int(v, default) == v
_safe_float(v, default) == v

\* bool(n)
bool(n) == n # 0

\* json.loads of what json.dumps wrote
json_loads(x) == x[2]

\* _loads_json_list: [] for an empty column
_loads_json_list(v) == IF v = <<>> THEN <<>> ELSE json_loads(v)

\* s.get(k) or None, for a text column
get_or_None(d, k) == IF k \in DOMAIN d /\ d[k] # <<>> THEN d[k] ELSE None

\* s.get(k) or "", for a text column
get_or_empty(d, k) == IF k \in DOMAIN d THEN d[k] ELSE <<>>

\* x or None, for a string column
or_None(x) == IF x = "" THEN None ELSE x

\* get_repo_overview (src/github_mcp/server.py)
get_repo_overview(user, repo) ==
    LET conn == _conn_for(user)
        rs == {x \in conn.repos : x.user = user /\ x.repo = repo}
    IN  IF rs = {}
        THEN [error |-> <<"Repo not found in MCP store. Run ingestion first.", user, repo>>]
        ELSE
        LET r == CHOOSE x \in rs : TRUE
            s == fetchone_or_empty({x \in conn.repo_signals : x.user = user /\ x.repo = repo})
            topics == _loads_json_list(r.topics)
            commit_count ==
                _safe_int(Cardinality({x \in conn.commits : x.user = user /\ x.repo = repo}), 0)
            flag(k) == bool(_safe_int(get(s, k, 0), 0))
        IN  [ repo |-> repo,
              description |-> r.description,
              language |-> r.language,
              html_url |-> r.html_url,
              default_branch |-> r.default_branch,
              created_at |-> r.created_at,
              updated_at |-> r.updated_at,
              pushed_at |-> r.pushed_at,
              last_ingested_at |-> r.last_ingested_at,
              readme_text |-> r.readme_text,
              achievements |->
                [ stars |-> _safe_int(r.stargazers_count, 0),
                  forks |-> _safe_int(r.forks_count, 0),
                  watchers |-> _safe_int(r.watchers_count, 0),
                  open_issues |-> _safe_int(r.open_issues_count, 0),
                  commits |-> commit_count ],
              metadata |->
                [ size |-> _safe_int(r.size, 0),
                  topics |-> topics,
                  license |-> or_None(r.license_name),
                  is_archived |-> bool(_safe_int(r.is_archived, 0)),
                  is_fork |-> bool(_safe_int(r.is_fork, 0)) ],
              automation |->
                [ has_github_actions |-> flag("has_github_actions"),
                  has_ci_config |-> flag("has_ci_config"),
                  has_precommit |-> flag("has_precommit"),
                  has_dockerfile |-> flag("has_dockerfile"),
                  has_docker_compose |-> flag("has_docker_compose"),
                  has_makefile |-> flag("has_makefile"),
                  detected_ci |-> get_or_None(s, "detected_ci"),
                  automation_score |-> _safe_float(get(s, "automation_score", 0), 0) ],
              coding_standards |->
                [ has_tests |-> flag("has_tests"),
                  has_lint_config |-> flag("has_lint_config"),
                  has_precommit |-> flag("has_precommit"),
                  has_ci_config |-> flag("has_ci_config"),
                  detected_test_framework |-> get_or_None(s, "detected_test_framework"),
                  coding_standards_score |->
                      _safe_float(get(s, "coding_standards_score", 0), 0) ],
              organization |->
                [ has_code_of_conduct |-> flag("has_code_of_conduct"),
                  has_contributing |-> flag("has_contributing"),
                  has_license |-> flag("has_license"),
                  has_security_policy |-> flag("has_security_policy"),
                  has_issue_templates |-> flag("has_issue_templates"),
                  has_pr_templates |-> flag("has_pr_templates"),
                  has_changelog |-> flag("has_changelog"),
                  has_docs |-> flag("has_docs"),
                  organization_score |-> _safe_float(get(s, "organization_score", 0), 0) ],
              signals |->
                [ tech_stack |-> get_or_empty(s, "tech_stack"),
                  has_ci_config |-> flag("has_ci_config"),
                  has_tests |-> flag("has_tests"),
                  has_dockerfile |-> flag("has_dockerfile"),
                  has_precommit |-> flag("has_precommit"),
                  detected_ci |-> get_or_None(s, "detected_ci"),
                  detected_test_framework |-> get_or_None(s, "detected_test_framework") ] ]

\* get_repo_signals (src/github-mcp/server.py)
get_repo_signals(user, repo) ==
    LET conn == _conn_for(user)
        ss == {x \in conn.repo_signals : x.user = user /\ x.repo = repo}
    IN  IF ss = {}
        THEN [error |-> <<"No signals found. Run ingestion first.", user, repo>>]
        ELSE LET s == CHOOSE x \in ss : TRUE
             IN  [s EXCEPT !.signals_json = json_loads(@)]

\* The text values ORDER BY compares (dates, repository names), in the
\* order of their collation
Collation ==
    << "", "2024-01-03", "2024-01-05", "2024-02-03", "2024-02-05",
       "api", "docs", "infra", "web" >>
collate(x) == CHOOSE i \in 1..Len(Collation) : Collation[i] = x

\* the characters of a description
text_of(d) == IF d = "first" THEN <<"f","i","r","s","t">> ELSE <<>>

\* text LIKE '%query%': sqlite compares ASCII letters without regard to
\* case, postgres compares exactly
like(text, query) ==
    IF db_mode = "sqlite" THEN contains(lower(text), lower(query))
    ELSE contains(text, query)

\* ORDER BY: the enumerations of the rows in which no row stands before one
\* that the ordering puts before it (rows the ordering does not tell apart
\* come in any order); before is the set of pairs <<a, b>>, a ordered
\* before b
order_by(rows, before) ==
    { s \in [1..Cardinality(rows) -> rows] :
        /\ \A i, j \in DOMAIN s : i # j => s[i] # s[j]
        /\ \A i, j \in DOMAIN s : i < j => <<s[j], s[i]>> \notin before }

\* the SELECT list: the columns of each row
select(s, cols) == [i \in DOMAIN s |-> [c \in cols |-> s[i][c]]]

\* a < b for tuples of integers, position by position
RECURSIVE lex_lt(_, _)
lex_lt(a, b) ==
    IF a = <<>> \/ b = <<>> THEN FALSE
    ELSE IF Head(a) = Head(b) THEN lex_lt(Tail(a), Tail(b))
    ELSE Head(a) < Head(b)

_normalize_repo_row(r) ==
    [ c \in DOMAIN r \cup {"topics", "name"} |->
        IF c = "topics" THEN _loads_json_list(IF "topics" \in DOMAIN r THEN r.topics ELSE <<>>)
        ELSE IF c = "name" /\ "name" \notin DOMAIN r THEN r.repo
        ELSE r[c] ]

ListReposCols ==
    { "repo", "description", "language", "html_url", "pushed_at", "created_at", "updated_at",
      "stargazers_count", "forks_count", "watchers_count", "open_issues_count", "size",
      "topics", "license_name", "is_archived", "is_fork" }

\* list_repos of server.py: the results the call can return
server_list_repos(user) ==
    LET conn == _conn_for(user)
        rows == {x \in conn.repos : x.user = user}
        before == {ab \in rows \X rows :
                     LET a == ab[1]
                         b == ab[2]
                     IN  lex_lt(<<0 - collate(a.pushed_at), collate(a.repo)>>,
                                <<0 - collate(b.pushed_at), collate(b.repo)>>)}
    IN  { [i \in DOMAIN o |-> _normalize_repo_row(select(o, ListReposCols)[i])] :
            o \in order_by(rows, before) }

TimelineCols ==
    { "sha", "authored_at", "message", "author_name", "author_login", "files_changed",
      "additions", "deletions" }

get_commit_timeline(user, repo, limit) ==
    LET conn == _conn_for(user)
        rows == {x \in conn.commits : x.user = user /\ x.repo = repo}
        before == {ab \in rows \X rows :
                     LET a == ab[1]
                         b == ab[2]
                     IN  collate(a.authored_at) > collate(b.authored_at)}
    IN  { select(take(o, _safe_int(limit, 50)), TimelineCols) : o \in order_by(rows, before) }

search_readmes(user, query, limit) ==
    LET conn == _conn_for(user)
        rows == {x \in conn.repos :
                    /\ x.user = user
                    /\ \/ like(x.readme_text, query)
                       \/ like(text_of(x.description), query)}
        before == {ab \in rows \X rows :
                     LET a == ab[1]
                         b == ab[2]
                     IN  collate(a.repo) < collate(b.repo)}
    IN  { [i \in 1..Len(take(o, limit)) |->
              _normalize_repo_row(select(o, {"repo", "html_url", "description"})[i])] :
            o \in order_by(rows, before) }

QueryCols ==
    { "repo", "tech_stack", "has_ci_config", "has_tests", "has_dockerfile", "has_precommit",
      "detected_ci", "detected_test_framework", "automation_score",
      "coding_standards_score", "organization_score" }

\* query_repos_by_signals; an optional argument is the set of its values:
\* {} for None
query_repos_by_signals(user, f, limit) ==
    LET conn == _conn_for(user)
        rows == {x \in conn.repo_signals :
                    /\ x.user = user
                    /\ \A q \in f.tech_stack : q # <<>> => like(x.tech_stack, q)
                    /\ \A b \in f.has_ci_config : x.has_ci_config = int(b)
                    /\ \A b \in f.has_tests : x.has_tests = int(b)
                    /\ \A b \in f.has_dockerfile : x.has_dockerfile = int(b)
                    /\ \A b \in f.has_precommit : x.has_precommit = int(b)
                    /\ \A d \in f.detected_ci : d # <<>> => x.detected_ci = d
                    /\ \A d \in f.detected_test_framework :
                            d # <<>> => x.detected_test_framework = d}
        key(x) == << 0 - x.has_ci_config, 0 - x.has_tests, 0 - x.automation_score,
                     0 - x.coding_standards_score, collate(x.repo) >>
        before == {ab \in rows \X rows :
                     LET a == ab[1]
                         b == ab[2]
                     IN  lex_lt(key(a), key(b))}
        out(r) ==
            [ c \in DOMAIN r \cup {"name"} |->
                IF c = "name" THEN r.repo
                ELSE IF c \in {"has_ci_config", "has_tests", "has_dockerfile", "has_precommit"}
                THEN bool(_safe_int(r[c], 0))
                ELSE r[c] ]
    IN  { [i \in 1..Len(take(o, limit)) |-> out(select(o, QueryCols)[i])] :
            o \in order_by(rows, before) }

\* defective variant: the counts are taken without `WHERE user=?`
aggregate_repo_metrics_all_users(user) ==
    LET conn == _conn_for(user)
        _count(rows) == _safe_int(Cardinality(rows), 0)
    IN  [ total_repos |-> _count(conn.repos),
          ci_cd_repos |-> _count({x \in conn.repo_signals : x.has_ci_config = 1}),
          github_actions_repos |-> _count({x \in conn.repo_signals : x.has_github_actions = 1}),
          test_repos |-> _count({x \in conn.repo_signals : x.has_tests = 1}),
          lint_repos |-> _count({x \in conn.repo_signals : x.has_lint_config = 1}),
          precommit_repos |-> _count({x \in conn.repo_signals : x.has_precommit = 1}),
          docker_repos |-> _count({x \in conn.repo_signals : x.has_dockerfile = 1}),
          python_repos |-> _count({x \in conn.repo_signals : like(x.tech_stack, <<"P","y","t","h","o","n">>)}),
          sql_hint_repos |->
              _count({x \in conn.repos :
                        \/ like(text_of(x.description), <<"S","Q","L">>)
                        \/ like(x.readme_text, <<"S","Q","L">>)}) ]

aggregate_repo_metrics(user) ==
    LET conn == _conn_for(user)
        mine == {x \in conn.repo_signals : x.user = user}
        _count(rows) == _safe_int(Cardinality(rows), 0)
    IN  [ total_repos |-> _count({x \in conn.repos : x.user = user}),
          ci_cd_repos |-> _count({x \in mine : x.has_ci_config = 1}),
          github_actions_repos |-> _count({x \in mine : x.has_github_actions = 1}),
          test_repos |-> _count({x \in mine : x.has_tests = 1}),
          lint_repos |-> _count({x \in mine : x.has_lint_config = 1}),
          precommit_repos |-> _count({x \in mine : x.has_precommit = 1}),
          docker_repos |-> _count({x \in mine : x.has_dockerfile = 1}),
          python_repos |-> _count({x \in mine : like(x.tech_stack, <<"P","y","t","h","o","n">>)}),
          sql_hint_repos |->
              _count({x \in conn.repos :
                        /\ x.user = user
                        /\ \/ like(text_of(x.description), <<"S","Q","L">>)
                           \/ like(x.readme_text, <<"S","Q","L">>)}) ]

rank_repos_by_activity(user, limit) ==
    LET conn == _conn_for(user)
        mine == {x \in conn.commits : x.user = user}
        rows == { [repo |-> r, commit_count |-> Cardinality({x \in mine : x.repo = r})] :
                    r \in {x.repo : x \in mine} }
        before == {ab \in rows \X rows :
                     LET a == ab[1]
                         b == ab[2]
                     IN  lex_lt(<<0 - a.commit_count, collate(a.repo)>>,
                                <<0 - b.commit_count, collate(b.repo)>>)}
        out(r) == [repo |-> r.repo, commit_count |-> _safe_int(r.commit_count, 0),
                   name |-> r.repo]
    IN  { [i \in 1..Len(take(o, limit)) |-> out(o[i])] : o \in order_by(rows, before) }

(***************************************************************************)
(* The tool layer is examined on the stores that finished runs leave.      *)
(* ingest(): one whole run as a function of the store, for the runs whose  *)
(* upserts the store applies.                                              *)
(***************************************************************************)
EmptyStore ==
    [ users |-> {}, repos |-> {}, repo_signals |-> {}, commits |-> {},
      last_attempt |-> [u \in Users, r \in RepoSet |-> "none"] ]

\* `for c in commits`: details and upsert of each commit
RECURSIVE ingest_commits(_, _, _, _, _)
ingest_commits(table, u, name, v, shas) ==
    IF shas = <<>> THEN table
    ELSE ingest_commits(
             upsert_commits(table, commit_row(u, name, Head(shas),
                                              source_commit_details(name, Head(shas), v))),
             u, name, v, Tail(shas))

\* `for r in repos`: the repos upsert, the signals (skipped for the
\* repositories whose tree listing fails), the commits
RECURSIVE ingest_repos(_, _, _, _, _, _)
ingest_repos(st, u, v, id, names, tree_failed) ==
    IF names = <<>> THEN st
    ELSE
    LET name == Head(names)
        text == b64decode(source_readme(name, v).content)
        st1 == [st EXCEPT !.repos =
                   upsert_repos(@, repo_row(u, source_repo_item(u, name, v), text, now(id)))]
        st2 == IF name \in tree_failed
               THEN [st1 EXCEPT !.last_attempt[u, name] = "failed"]
               ELSE [st1 EXCEPT !.last_attempt[u, name] = "ok",
                                !.repo_signals = upsert_repo_signals(@,
                                     signals_row(u, name, signals_of_tree[name, v]))]
        st3 == [st2 EXCEPT !.commits =
                   ingest_commits(@, u, name, v, take(source_commits(name, v), ApiMaxCommits))]
    IN  ingest_repos(st3, u, v, id, Tail(names), tree_failed)

\* run_ingestion_job over ingest(): the run ends in the handler (log_complete)
ingest(st, u, v, id, tree_failed) ==
    [ingest_repos(st, u, v, id, source_repos(v), tree_failed) EXCEPT !.users =
        upsert_user(@, user_row(u, 0, "failed", ErrNameError, now(id)))]

\* what has happened for a username before the tools are called
Histories ==
    { "never",              \* no request
      "pending",            \* POST /ingest answered, the run not started
      "run",                \* one run
      "run_tree_failed",    \* one run; the tree listing of the first repository failed
      "two_runs",           \* a run, then a run over the next state of the source
      "second_tree_failed"  \* the same; every tree listing of the second run failed
    }

history(st, u, h) ==
    CASE h = "never" -> st
      [] h = "pending" ->
            [st EXCEPT !.users = upsert_user(@, user_row(u, 0, "pending", None, now(1)))]
      [] h = "run" -> ingest(st, u, 1, 1, {})
      [] h = "run_tree_failed" -> ingest(st, u, 1, 1, {RepoNames[1]})
      [] h = "two_runs" -> ingest(ingest(st, u, 1, 1, {}), u, 2, 2, {})
      [] h = "second_tree_failed" -> ingest(ingest(st, u, 1, 1, {}), u, 2, 2, RepoSet)

\* the stores: any history of the first username, beside a second username
\* that was never ingested or was ingested once
Stores ==
    { history(history(EmptyStore, UserNames[1], h1), UserNames[2], h2) :
         h1 \in Histories, h2 \in {"never", "run"} }

InitTools ==
    /\ db_mode \in DbModes
    /\ environ \in [DB_MODE : EnvModes(db_mode), GITHUB_TOKEN : {None}]
    /\ reply = NoReply
    /\ cls_paths = <<>>
    /\ cls_sig = <<>>
    /\ \E st \in Stores :
         /\ users = st.users
         /\ repos = st.repos
         /\ repo_signals = st.repo_signals
         /\ commits = st.commits
         /\ last_attempt = st.last_attempt
    /\ queue = <<>>
    /\ nreq = 0
    /\ faults = 0
    /\ job = [w \in Workers |-> Idle]

\* a tool call and its result
tool_reply(route, user, args, body) ==
    [route |-> route, user |-> user, args |-> args, code |-> 200, body |-> body]

\* the arguments the tools are called with
Limits == {1, 10}
Queries == { <<"f","a","s","t","a","p","i">>, <<"F","I","R","S","T">>, <<"g","o">>, <<"S","Q","L">> }
NoFilter ==
    [ tech_stack |-> {}, has_ci_config |-> {}, has_tests |-> {}, has_dockerfile |-> {},
      has_precommit |-> {}, detected_ci |-> {}, detected_test_framework |-> {} ]
Filters ==
    { NoFilter,
      [NoFilter EXCEPT !.tech_stack = {<<"P","y","t","h","o","n">>}],
      [NoFilter EXCEPT !.tech_stack = {<<"p","y","t","h","o","n">>}],
      [NoFilter EXCEPT !.tech_stack = {<<>>}],
      [NoFilter EXCEPT !.has_ci_config = {TRUE}],
      [NoFilter EXCEPT !.has_tests = {FALSE}],
      [NoFilter EXCEPT !.has_dockerfile = {TRUE}],
      [NoFilter EXCEPT !.has_precommit = {FALSE}],
      [NoFilter EXCEPT !.detected_ci = {<<"g","i","t","h","u","b","_","a","c","t","i","o","n","s">>}],
      [NoFilter EXCEPT !.detected_test_framework = {<<"p","y","t","e","s","t">>}],
      [NoFilter EXCEPT !.tech_stack = {<<"P","y","t","h","o","n">>}, !.has_tests = {TRUE}] }

ToolFrame ==
    UNCHANGED <<db_mode, users, repos, repo_signals, commits, queue, nreq, faults,
                last_attempt, job, environ, cls_paths, cls_sig>>

\* defective variant: the listing registers the username it is asked about
call_list_repos_registering(user) ==
    /\ \E body \in server_list_repos(user) :
         reply' = tool_reply("list_repos", user, <<>>, body)
    /\ users' = upsert_user(users, user_row(user, 0, "pending", None, now(0)))
    /\ UNCHANGED <<db_mode, repos, repo_signals, commits, queue, nreq, faults,
                   last_attempt, job, environ, cls_paths, cls_sig>>

call_list_repos(user) ==
    /\ \E body \in server_list_repos(user) :
         reply' = tool_reply("list_repos", user, <<>>, body)
    /\ ToolFrame

call_get_repo_overview(user, repo) ==
    /\ reply' = tool_reply("get_repo_overview", user, [repo |-> repo],
                           get_repo_overview(user, repo))
    /\ ToolFrame

call_get_repo_signals(user, repo) ==
    /\ reply' = tool_reply("get_repo_signals", user, [repo |-> repo],
                           get_repo_signals(user, repo))
    /\ ToolFrame

call_get_commit_timeline(user, repo, limit) ==
    /\ \E body \in get_commit_timeline(user, repo, limit) :
         reply' = tool_reply("get_commit_timeline", user,
                             [repo |-> repo, limit |-> limit], body)
    /\ ToolFrame

call_search_readmes(user, query, limit) ==
    /\ \E body \in search_readmes(user, query, limit) :
         reply' = tool_reply("search_readmes", user, [query |-> query, limit |-> limit], body)
    /\ ToolFrame

call_query_repos_by_signals(user, f, limit) ==
    /\ \E body \in query_repos_by_signals(user, f, limit) :
         reply' = tool_reply("query_repos_by_signals", user, [filters |-> f, limit |-> limit], body)
    /\ ToolFrame

call_aggregate_repo_metrics(user) ==
    /\ reply' = tool_reply("aggregate_repo_metrics", user, <<>>, aggregate_repo_metrics(user))
    /\ ToolFrame

call_rank_repos_by_activity(user, limit) ==
    /\ \E body \in rank_repos_by_activity(user, limit) :
         reply' = tool_reply("rank_repos_by_activity", user, [limit |-> limit], body)
    /\ ToolFrame

NextTools ==
    \/ \E user \in Users : call_list_repos(user)
    \/ \E user \in Users, repo \in RepoSet : call_get_repo_overview(user, repo)
    \/ \E user \in Users, repo \in RepoSet : call_get_repo_signals(user, repo)
    \/ \E user \in Users, repo \in RepoSet, limit \in Limits :
         call_get_commit_timeline(user, repo, limit)
    \/ \E user \in Users, query \in Queries, limit \in Limits :
         call_search_readmes(user, query, limit)
    \/ \E user \in Users, f \in Filters, limit \in Limits :
         call_query_repos_by_signals(user, f, limit)
    \/ \E user \in Users : call_aggregate_repo_metrics(user)
    \/ \E user \in Users, limit \in Limits : call_rank_repos_by_activity(user, limit)

SpecTools == InitTools /\ [][NextTools]_vars

(***************************************************************************)
(* The tool server beside the service: between two tool calls a run of     *)
(* run_ingestion_job for some username goes through (main.py:95-144 over   *)
(* ingest.py:353-508), on the next state of the source.                    *)
(***************************************************************************)
\* number of runs that go through between the tool calls of one behaviour
MaxRunsBetweenCalls == 1

\* a whole run for user u, over the source in state v
run_between_calls(u) ==
    /\ nreq < MaxRunsBetweenCalls
    /\ \E v \in Snapshots :
         LET st == ingest([users |-> users, repos |-> repos, repo_signals |-> repo_signals,
                           commits |-> commits, last_attempt |-> last_attempt],
                          u, v, 3 + nreq, {})
         IN  /\ users' = st.users
             /\ repos' = st.repos
             /\ repo_signals' = st.repo_signals
             /\ commits' = st.commits
             /\ last_attempt' = st.last_attempt
    /\ nreq' = nreq + 1
    /\ UNCHANGED <<db_mode, queue, faults, job, environ, reply, cls_paths, cls_sig>>

\* the tool calls beside the runs: every tool, the filtered query without
\* filters
NextShared ==
    \/ \E user \in Users : call_list_repos(user)
    \/ \E user \in Users, repo \in RepoSet : call_get_repo_overview(user, repo)
    \/ \E user \in Users, repo \in RepoSet : call_get_repo_signals(user, repo)
    \/ \E user \in Users, repo \in RepoSet, limit \in Limits :
         call_get_commit_timeline(user, repo, limit)
    \/ \E user \in Users, query \in Queries, limit \in Limits :
         call_search_readmes(user, query, limit)
    \/ \E user \in Users, limit \in Limits :
         call_query_repos_by_signals(user, NoFilter, limit)
    \/ \E user \in Users : call_aggregate_repo_metrics(user)
    \/ \E user \in Users, limit \in Limits : call_rank_repos_by_activity(user, limit)
    \/ \E u \in Users : run_between_calls(u)

SpecShared == InitTools /\ [][NextShared]_vars

(***************************************************************************)
(* The path classifier on its own: detect_signals applied to a path list.  *)
(***************************************************************************)
\* length of the path lists built from the vocabulary
MaxPaths == 3

\* str.upper
upper_char(c) ==
    IF \E d \in {ascii_order[i] : i \in 1..Len(ascii_order)} : d # c /\ lower_char(d) = c
    THEN CHOOSE d \in {ascii_order[i] : i \in 1..Len(ascii_order)} : d # c /\ lower_char(d) = c
    ELSE c
upper(p) == [i \in 1..Len(p) |-> upper_char(p[i])]

\* str.swapcase
swapcase(p) ==
    [i \in 1..Len(p) |-> IF lower_char(p[i]) # p[i] THEN lower_char(p[i]) ELSE upper_char(p[i])]

\* paths the lists are built from
Vocabulary ==
    { <<"R","E","A","D","M","E",".","m","d">>, <<"r","e","a","d","m","e",".","m","d">>, <<"t","e","s","t","s","/","t","e","s","t","_","f","o","o",".","p","y">>, <<".","g","i","t","h","u","b","/","w","o","r","k","f","l","o","w","s","/","c","i",".","y","m","l">>,
      <<"D","o","c","k","e","r","f","i","l","e">>, <<"L","I","C","E","N","S","E">>, <<"f","r","o","n","t","e","n","d","/",".","e","s","l","i","n","t","r","c",".","j","s">>, <<"M","a","k","e","f","i","l","e">>,
      <<"s","r","c","/","A","p","p",".","t","s","x">>, <<"n","o","t","e","s",".","t","x","t">> }

\* a tree that holds every organization item, the automation and the coding
\* standards items: its prefixes give every count of true items
FullTree ==
    << <<"C","O","D","E","_","O","F","_","C","O","N","D","U","C","T",".","m","d">>, <<"C","O","N","T","R","I","B","U","T","I","N","G",".","m","d">>, <<"L","I","C","E","N","S","E">>, <<"S","E","C","U","R","I","T","Y",".","m","d">>,
       <<".","g","i","t","h","u","b","/","I","S","S","U","E","_","T","E","M","P","L","A","T","E","/","b","u","g",".","m","d">>, <<".","g","i","t","h","u","b","/","P","U","L","L","_","R","E","Q","U","E","S","T","_","T","E","M","P","L","A","T","E",".","m","d">>,
       <<"C","H","A","N","G","E","L","O","G",".","m","d">>, <<"d","o","c","s","/","i","n","d","e","x",".","m","d">>, <<"R","E","A","D","M","E",".","m","d">>,
       <<"t","e","s","t","s","/","c","o","n","f","t","e","s","t",".","p","y">>, <<".","e","s","l","i","n","t","r","c">>, <<".","p","r","e","-","c","o","m","m","i","t","-","c","o","n","f","i","g",".","y","a","m","l">>,
       <<".","g","i","t","h","u","b","/","w","o","r","k","f","l","o","w","s","/","c","i",".","y","m","l">>, <<"D","o","c","k","e","r","f","i","l","e">>, <<"d","o","c","k","e","r","-","c","o","m","p","o","s","e",".","y","m","l">> >>

\* a tree with tests, a workflow, a Dockerfile, a README and a LICENSE
ExampleTree ==
    << <<"t","e","s","t","s","/","t","e","s","t","_","f","o","o",".","p","y">>, <<".","g","i","t","h","u","b","/","w","o","r","k","f","l","o","w","s","/","c","i",".","y","m","l">>, <<"D","o","c","k","e","r","f","i","l","e">>,
       <<"R","E","A","D","M","E",".","m","d">>, <<"L","I","C","E","N","S","E">> >>

\* paths for the tech-stack rules: paths of one category, paths that meet
\* the rules of two categories, paths with two framework names
TechPaths ==
    { <<"a","p","p","/","m","a","i","n",".","p","y">>, <<"a","p","i","/","f","a","s","t","a","p","i","_","f","l","a","s","k","/","v","i","e","w","s",".","p","y">>, <<"s","r","c","/","p","y","t","h","o","n","/","a","p","p",".","t","s">>,
      <<"w","e","b","/","r","e","a","c","t","/","n","e","x","t",".","t","s","x">>, <<"w","e","b","/","n","o","d","e","/","v","u","e",".","j","s">>, <<"i","n","f","r","a","/","c","d","k","/","m","a","i","n",".","t","f">>,
      <<"d","b","/","m","i","g","r","a","t","i","o","n","s","/","0","0","1",".","s","q","l">>, <<"a","w","s","/","t","e","m","p","l","a","t","e",".","y","a","m","l">>, <<"o","p","e","n","a","i","/","l","a","n","g","c","h","a","i","n",".","t","x","t">>,
      <<"D","o","c","k","e","r","f","i","l","e">>, <<"d","o","c","k","e","r","-","c","o","m","p","o","s","e",".","y","m","l">>, <<".","g","i","t","h","u","b","/","w","o","r","k","f","l","o","w","s","/","c","i",".","y","m","l">>,
      <<"s","r","c","/","M","a","i","n",".","j","a","v","a">>, <<"n","o","t","e","s",".","t","x","t">> }

\* paths for the CI rules: the configuration of each CI system at the root
\* of the tree, and two of them inside a directory
CiPaths ==
    { <<".","g","i","t","h","u","b","/","w","o","r","k","f","l","o","w","s","/","c","i",".","y","m","l">>, <<".","c","i","r","c","l","e","c","i","/","c","o","n","f","i","g",".","y","m","l">>, <<".","g","i","t","l","a","b","-","c","i",".","y","m","l">>,
      <<"a","z","u","r","e","-","p","i","p","e","l","i","n","e","s",".","y","m","l">>, <<"J","e","n","k","i","n","s","f","i","l","e">>, <<".","t","r","a","v","i","s",".","y","m","l">>,
      <<"c","i","/","J","e","n","k","i","n","s","f","i","l","e">>, <<"b","u","i","l","d","/","a","z","u","r","e","-","p","i","p","e","l","i","n","e","s",".","y","m","l">>, <<"n","o","t","e","s",".","t","x","t">> }

\* length of the path lists built from TechPaths and from CiPaths
MaxTechPaths == 2

PathLists ==
    UNION {[1..n -> Vocabulary] : n \in 0..MaxPaths}
    \cup UNION {[1..n -> TechPaths] : n \in 0..MaxTechPaths}
    \cup UNION {[1..n -> CiPaths] : n \in 0..MaxTechPaths}
    \cup {ExampleTree}
    \cup {SubSeq(FullTree, 1, n) : n \in 0..Len(FullTree)}
    \cup {SubSeq(FullTree, n, Len(FullTree)) : n \in 1..Len(FullTree)}

InitClassifier ==
    /\ db_mode \in DbModes
    /\ environ \in [DB_MODE : EnvModes(db_mode), GITHUB_TOKEN : {None}]
    /\ reply = NoReply
    /\ cls_paths \in PathLists
    /\ cls_sig = <<>>
    /\ users = {}
    /\ repos = {}
    /\ repo_signals = {}
    /\ commits = {}
    /\ queue = <<>>
    /\ nreq = 0
    /\ faults = 0
    /\ last_attempt = [u \in Users, r \in RepoSet |-> "none"]
    /\ job = [w \in Workers |-> Idle]

\* list(dict.fromkeys(paths)): the first occurrence of each path
RECURSIVE dedup(_)
dedup(paths) ==
    IF paths = <<>> THEN <<>>
    ELSE LET front == dedup(SubSeq(paths, 1, Len(paths) - 1))
             last == paths[Len(paths)]
         IN  IF \E i \in DOMAIN front : front[i] = last THEN front ELSE Append(front, last)

\* defective variant: an empty path list is rejected
call_detect_signals_rejecting_empty ==
    /\ DOMAIN cls_sig = {}
    /\ cls_sig' = IF cls_paths = <<>> THEN [error |-> "ValueError"]
                  ELSE detect_signals(cls_paths)
    /\ UNCHANGED <<db_mode, users, repos, repo_signals, commits, queue, nreq, faults,
                   last_attempt, job, environ, reply, cls_paths>>

\* defective variant: repeated paths are dropped before the paths are counted
call_detect_signals_deduplicating ==
    /\ DOMAIN cls_sig = {}
    /\ cls_sig' = detect_signals(dedup(cls_paths))
    /\ UNCHANGED <<db_mode, users, repos, repo_signals, commits, queue, nreq, faults,
                   last_attempt, job, environ, reply, cls_paths>>

\* sig = detect_signals(paths)
call_detect_signals ==
    /\ DOMAIN cls_sig = {}
    /\ cls_sig' = detect_signals(cls_paths)
    /\ UNCHANGED <<db_mode, users, repos, repo_signals, commits, queue, nreq, faults,
                   last_attempt, job, environ, reply, cls_paths>>

NextClassifier == call_detect_signals

SpecClassifier == InitClassifier /\ [][NextClassifier]_vars

(***************************************************************************)
(* Properties.                                                             *)
(***************************************************************************)
Statuses == {"pending", "in_progress", "completed", "failed"}
Tables == <<repos, repo_signals, commits>>

\* the status stored for a username ("absent": no row)
status_of(table, u) ==
    IF \E x \in table : x.user_name = u
    THEN (CHOOSE x \in table : x.user_name = u).status
    ELSE "absent"

\* a call of worker w fails in this step
Fails(w) == job'[w] # job[w] /\ faults' > faults

\* worker w, at pc, executes an upsert in this step and the store applies it
Applies(w, pc) ==
    job[w].pc = pc /\ job'[w] # job[w] /\ job'[w].stmt.result = "applied"

\* the repository worker w is at has a row in table
HasRow(table, w) ==
    \E x \in table : x.user = job[w].user /\ x.repo = job[w].repos[job[w].i]

TypeOK ==
    /\ db_mode \in DbModes
    /\ \A x \in users : x.user_name \in Users /\ x.status \in Statuses
    /\ \A x \in repos : x.user \in Users /\ x.repo \in RepoSet
    /\ \A x \in repo_signals : x.user \in Users /\ x.repo \in RepoSet
    /\ \A x \in commits : x.user \in Users /\ x.repo \in RepoSet
    /\ nreq \in 0..MaxRequests
    /\ faults \in 0..MaxFaults
    /\ \A w \in Workers :
         job[w].pc \in { "idle", "list_repos", "fetch_readme", "upsert_repo", "list_tree",
                         "upsert_signals", "list_commits", "fetch_commit_details",
                         "upsert_commit", "log_complete", "except" }

\* C1 (as claimed): a run writes status in_progress when it starts, completed
\* when it reaches the end of ingest(), and failed with the error text when
\* an exception ends it.
C1_RunRecordsItsStatus ==
    [][\A w \in Workers :
         /\ (job[w].pc = "idle" /\ job'[w].pc = "list_repos")
                => status_of(users', job'[w].user) = "in_progress"
         /\ (job[w].pc = "log_complete" /\ job'[w] # job[w])
                => status_of(users', job[w].user) = "completed"
         /\ (job[w].pc = "except" /\ users' # users)
                => failed_row(job[w]) \in users']_vars

\* C2 (as claimed, while no call has failed): the stored status is one of
\* the four values and changes only along pending -> in_progress ->
\* completed | failed, and from failed to in_progress on a re-run.
C2_StatusTransitions ==
    [][\A u \in Users :
         /\ status_of(users', u) \in Statuses \cup {"absent"}
         /\ (faults' = 0 /\ status_of(users', u) # status_of(users, u))
                => <<status_of(users, u), status_of(users', u)>> \in
                      { <<"absent", "pending">>, <<"pending", "in_progress">>,
                        <<"in_progress", "completed">>, <<"in_progress", "failed">>,
                        <<"failed", "in_progress">> }]_vars

\* C3: when a page of the repository list fails, the run is aborted: the
\* exception reaches the handler with the error text of the fetch, the run
\* has written and writes no repos, repo_signals or commits row, and the
\* status upsert of the handler, when the store applies it, leaves the single
\* users row of the username at failed with that error text.
C3_ListFailureAbortsRun ==
    [][\A w \in Workers :
         /\ (job[w].pc = "list_repos" /\ Fails(w))
                => /\ job'[w].pc = "except"
                   /\ job'[w].err = ErrListRepos
                   /\ job'[w].stmt = NoStmt
                   /\ Tables' = Tables
         /\ (job[w].err = ErrListRepos /\ job'[w] # job[w])
                => /\ job[w].pc = "except"
                   /\ job'[w].pc = "idle"
                   /\ Tables' = Tables
                   /\ \/ users' = users
                      \/ {x \in users' : x.user_name = job[w].user} =
                            {user_row(job[w].user, 0, "failed", ErrListRepos, now(job[w].id))}
      ]_vars

\* C3 witness: a run that lost its repository list has been recorded as failed
C3_Witness ==
    \E x \in users : x.status = "failed" /\ x.error = ErrListRepos

\* C4: a failure of the tree fetch or of the commit fetch (the list or one
\* commit's details) of repository ri does not abort the run: the repos row
\* of ri is there and stays, the run goes on with the commits of ri (after
\* the tree) or with repository r(i+1) (after the commits), and so every
\* repository of the list is reached unless an exception of another kind
\* ends the run.
C4_FetchFailureDoesNotAbort ==
    [][\A w \in Workers :
         /\ (job[w].pc = "list_tree" /\ Fails(w))
                => /\ job'[w].pc = "list_commits"
                   /\ job'[w].i = job[w].i
                   /\ HasRow(repos, w) /\ repos' = repos
         /\ (job[w].pc \in {"list_commits", "fetch_commit_details"} /\ Fails(w))
                => /\ HasRow(repos, w) /\ repos' = repos
                   /\ job'[w].repos = job[w].repos
                   /\ IF job[w].i < Len(job[w].repos)
                      THEN job'[w].pc = "fetch_readme" /\ job'[w].i = job[w].i + 1
                      ELSE job'[w].pc = "log_complete"
         /\ (job[w].pc = "upsert_repo" /\ job'[w].pc = "list_tree")
                => repo_row(job[w].user, cur_item(job[w]), job[w].readme_text,
                            now(job[w].id)) \in repos'
         /\ job'[w].pc = "log_complete" => job'[w].i = Len(job'[w].repos)
      ]_vars

\* C4 witness: the tree fetch of the first repository failed, its row is
\* stored, and the run is at the second repository
C4_Witness ==
    \E w \in Workers :
        /\ job[w].pc = "fetch_readme" /\ job[w].i = 2
        /\ last_attempt[job[w].user, job[w].repos[1]] = "failed"
        /\ \E x \in repos : x.user = job[w].user /\ x.repo = job[w].repos[1]

\* C5 (as claimed, for attempts whose signals upsert the store did not
\* reject): a repo_signals row exists iff the tree listing of the most recent
\* attempt succeeded.
C5_SignalsIffLastTreeOk ==
    \A u \in Users, r \in RepoSet :
        /\ last_attempt[u, r] = "failed"
              => ~(\E x \in repo_signals : x.user = u /\ x.repo = r)
        /\ (/\ last_attempt[u, r] = "ok"
            /\ ~(\E w \in Workers : /\ job[w].pc = "upsert_signals"
                                    /\ job[w].user = u /\ job[w].repos[job[w].i] = r))
              => \E x \in repo_signals : x.user = u /\ x.repo = r

\* C5 (amended): a repo_signals row is written only by a signals upsert the
\* store applies (which follows a successful tree listing of the same
\* attempt) and is never removed: a failing tree fetch leaves the table as it
\* is, so the row of an earlier attempt stays.
C5_SignalsKeptUntilReplaced ==
    [][/\ \A x \in repo_signals :
             \E y \in repo_signals' : y.user = x.user /\ y.repo = x.repo
       /\ \A w \in Workers :
             (job[w].pc = "list_tree" /\ Fails(w)) => repo_signals' = repo_signals
       /\ repo_signals' # repo_signals
             => \E w \in Workers :
                   /\ Applies(w, "upsert_signals")
                   /\ \A y \in repo_signals' \ repo_signals :
                         y.user = job[w].user /\ y.repo = job[w].repos[job[w].i]
      ]_vars

\* C5 witness: the tree listing of the most recent attempt failed and the
\* row of an earlier attempt is still stored
C5_Witness ==
    \E u \in Users, r \in RepoSet :
        /\ last_attempt[u, r] = "failed"
        /\ \E x \in repo_signals : x.user = u /\ x.repo = r

\* C6: a signals upsert the store applies leaves, under the key of the
\* repository, exactly the row computed from the tree the run has just
\* listed: every column is the classifier's value for the new tree.
C6_SignalsFullyReplaced ==
    [][\A w \in Workers :
         Applies(w, "upsert_signals")
            => {x \in repo_signals' : x.user = job[w].user /\ x.repo = job[w].repos[job[w].i]}
                 = {signals_row(job[w].user, job[w].repos[job[w].i],
                                signals_of_tree[job[w].repos[job[w].i], job[w].snap])}
      ]_vars

\* C6 witness: a re-ingestion has replaced a row whose tree had tests and CI
\* by the row of a tree that has neither
C6_Witness ==
    \E w \in Workers :
        /\ job[w].stmt = [table |-> "repo_signals", result |-> "applied",
                          conflict |-> "different"]
        /\ job[w].snap = 2
        /\ \E x \in repo_signals :
              /\ x.user = job[w].user /\ x.repo = job[w].repos[job[w].i]
              /\ x.has_tests = 0 /\ x.has_ci_config = 0 /\ x.organization_score = 0

\* C7: a repos upsert the store applies leaves exactly one row under
\* (user, repo), and it is the row of this call in every column.
C7_RepoUpsertLastWriteWins ==
    [][\A w \in Workers :
         Applies(w, "upsert_repo")
            => {x \in repos' : x.user = job[w].user /\ x.repo = job[w].repos[job[w].i]}
                 = {repo_row(job[w].user, cur_item(job[w]), job[w].readme_text,
                             now(job[w].id))}
      ]_vars

\* C7 witness: the second upsert of a key met a row with other values
C7_Witness ==
    \E w \in Workers :
        job[w].stmt = [table |-> "repos", result |-> "applied", conflict |-> "different"]

\* C8: a commits upsert the store applies leaves exactly one row under
\* (user, repo, sha), with the message and the stat fields of this call.
C8_CommitUpsertInPlace ==
    [][\A w \in Workers :
         Applies(w, "upsert_commit")
            => LET sha == job[w].commits[job[w].j]
                   d == source_commit_details(job[w].repos[job[w].i], sha, job[w].snap)
                   found == {x \in commits' : /\ x.user = job[w].user
                                              /\ x.repo = job[w].repos[job[w].i]
                                              /\ x.sha = sha}
               IN  /\ Cardinality(found) = 1
                   /\ \A x \in found :
                         /\ x.message = d.commit.message
                         /\ x.files_changed = Len(d.files)
                         /\ x.additions = d.stats.additions
                         /\ x.deletions = d.stats.deletions
      ]_vars

\* C8 witness: the second upsert of a sha met a row with other values
C8_Witness ==
    \E w \in Workers :
        job[w].stmt = [table |-> "commits", result |-> "applied", conflict |-> "different"]

\* C9 (as claimed): a storage failure on a row of a repository is caught: it
\* does not take the run to the handler of run_ingestion_job.
C9_StorageFailureCaught ==
    \A w \in Workers :
        job[w].stmt.result \in {"fault", "refused"} => job[w].pc # "except"

\* C10 (as claimed): an upsert that fails changes no stored row, and every
\* later upsert on the same connection that meets no fault of its own is
\* applied.
C10_UpsertOwnTransaction ==
    [][\A w \in Workers :
         /\ (job'[w] # job[w] /\ job'[w].stmt # job[w].stmt
             /\ job'[w].stmt.result # "applied") => Tables' = Tables
         /\ job'[w].stmt.result # "refused"
      ]_vars

\* C11 (as claimed): two runs for different usernames share no mutable state
\* other than the store: the start of a run while a run of another username
\* is at work writes nothing of the process that the other run has written.
C11_NoSharedStateButStore ==
    [][\A w \in Workers :
         (/\ job[w].pc = "idle" /\ job'[w].pc # "idle"
          /\ \E w2 \in Workers \ {w} :
                job[w2].pc # "idle" /\ job[w2].user # job'[w].user)
            => environ' = environ
      ]_vars

\* C12: a request records pending, puts the run into the queue of the
\* executor and answers "pending" in the same step, in which no run makes a
\* step; when the status upsert raises it answers 500 and submits nothing.
\* No step of a run answers a request, and what a run leaves when it ends
\* is written to the users table only.
C12_RequestReturnsAtOnce ==
    [][/\ nreq' # nreq
          => /\ job' = job /\ Tables' = Tables
             /\ reply'.route = "ingest"
             /\ IF reply'.code = 200
                THEN /\ reply'.body = "pending"
                     /\ status_of(users', reply'.user) = "pending"
                     /\ queue' = Append(queue, [id |-> nreq', user |-> reply'.user])
                ELSE users' = users /\ queue' = queue
       /\ job' # job => reply' = reply
       /\ \A w \in Workers :
             (job[w].pc = "except" /\ job'[w] # job[w])
                => /\ Tables' = Tables /\ queue' = queue /\ environ' = environ
                   /\ job'[w] = Idle
      ]_vars

\* C12 witness: the request has been answered and its run is still at work
C12_Witness ==
    /\ reply = [route |-> "ingest", user |-> reply.user, code |-> 200, body |-> "pending"]
    /\ \E w \in Workers :
          job[w].id = nreq /\ job[w].user = reply.user /\ job[w].pc = "upsert_commit"

\* C13: a per-repository query about a repository that has no signals row
\* (never ingested, or ingested with the tree fetch failed each time)
\* answers with an explicit error object.
C13_NoSignalsIsAnError ==
    (/\ reply.route \in {"get_repo_overview", "get_repo_signals"}
     /\ ~\E x \in repo_signals : x.user = reply.user /\ x.repo = reply.args.repo)
        => DOMAIN reply.body = {"error"}

\* C14: for every max_commits >= 0, a run fetches the details of and upserts
\* at most max_commits commits of a repository: the commits of a repository
\* are taken one by one, numbered from 1, and the number never exceeds
\* max_commits, however many the pages of the source delivered.
C14_CommitCap ==
    [][\A w \in Workers :
         LET t == job[w]
             t2 == job'[w]
         IN  /\ (t2 # t /\ t2.pc = "fetch_commit_details") =>
                  /\ t2.j <= t2.max_commits
                  /\ Len(t2.commits) <= t2.max_commits
                  /\ t2.j = IF t.pc = "upsert_commit" THEN t.j + 1 ELSE 1
                  /\ t.pc = "upsert_commit" => t2.i = t.i /\ t2.commits = t.commits
             /\ (t2 # t /\ t.pc \in {"fetch_commit_details", "upsert_commit"}) =>
                  /\ t.j <= t.max_commits
                  /\ commits' \subseteq commits \cup
                        {x \in commits' : /\ x.user = t.user /\ x.repo = t.repos[t.i]
                                          /\ x.sha = t.commits[t.j]}
             /\ (t2 # t /\ t.pc \notin {"upsert_commit"}) => commits' = commits]_vars

\* a run with max_commits below the page size is through with a repository
\* that has more commits: the page brought them all, max_commits are stored
C14_Witness ==
    \E w \in Workers :
        LET t == job[w] IN
        /\ t.pc = "log_complete"
        /\ t.max_commits = PerPage - 1
        /\ t.repos # <<>>
        /\ Len(source_commits(t.repos[1], t.snap)) > t.max_commits
        /\ Cardinality({x \in commits : x.user = t.user /\ x.repo = t.repos[1]}) = t.max_commits

\* C15: a failure of the README fetch of a repository gives the empty text;
\* the repos row is written with that empty text (when the store applies the
\* upsert), and the run goes on, for the same repository, to the tree
\* listing and then to the commit listing.
C15_ReadmeFailureGivesEmptyText ==
    [][\A w \in Workers :
         LET t == job[w]
             t2 == job'[w]
             same == t2.i = t.i /\ t2.repos = t.repos /\ t2.readme_text = <<>>
         IN  /\ (t.pc = "fetch_readme" /\ Fails(w))
                    => t2.pc = "upsert_repo" /\ same
             /\ (t.readme_text = <<>> /\ Applies(w, "upsert_repo"))
                    => /\ t2.pc = "list_tree" /\ same
                       /\ \E x \in repos' : /\ x.user = t.user /\ x.repo = t.repos[t.i]
                                            /\ x.readme_text = <<>>
                                            /\ x = repo_row(t.user, cur_item(t), <<>>, now(t.id))
             /\ (t.readme_text = <<>> /\ t.pc = "list_tree" /\ t2 # t)
                    => /\ same
                       /\ IF Fails(w) THEN t2.pc = "list_commits" /\ t2.page = 1
                          ELSE t2.pc = "upsert_signals"
             /\ (t.readme_text = <<>> /\ t.pc = "upsert_signals" /\ t2 # t)
                    => t2.pc = "list_commits" /\ t2.page = 1 /\ same]_vars

\* the README fetch of a repository failed, its row is stored with the
\* empty text, its signals are stored and the run is at its commit listing
C15_Witness ==
    \E w \in Workers :
        LET t == job[w] IN
        /\ t.pc = "list_commits"
        /\ t.readme_text = <<>>
        /\ repo_row(t.user, cur_item(t), <<>>, now(t.id)) \in repos
        /\ \E x \in repo_signals : x.user = t.user /\ x.repo = t.repos[t.i]

\* C16: a read operation of the tool layer (list repos, repo overview,
\* commit timeline, README search, query by signals, aggregate metrics, rank
\* by activity) leaves every row of repos, repo_signals, commits and users
\* as it was, whatever its arguments.
C16_ReadsLeaveRowsUnchanged ==
    [][reply' # reply =>
         /\ reply'.route \in
               { "list_repos", "get_repo_overview", "get_repo_signals", "get_commit_timeline",
                 "search_readmes", "query_repos_by_signals", "aggregate_repo_metrics",
                 "rank_repos_by_activity" }
         /\ users' = users
         /\ repos' = repos
         /\ repo_signals' = repo_signals
         /\ commits' = commits]_vars

\* list_repos was called for a username that was never ingested, in a store
\* that holds rows of another username
C16_Witness ==
    /\ reply.route = "list_repos"
    /\ reply.body = <<>>
    /\ ~\E x \in users : x.user_name = reply.user
    /\ \E x \in repos : x.user # reply.user

\* the classifier has returned
Classified == DOMAIN cls_sig # {}

\* the 16 boolean fields of the classifier's record
SignalFlags ==
    { "has_tests", "has_github_actions", "has_ci_config", "has_lint_config", "has_precommit",
      "has_dockerfile", "has_docker_compose", "has_makefile", "has_code_of_conduct",
      "has_contributing", "has_license", "has_security_policy", "has_issue_templates",
      "has_pr_templates", "has_changelog", "has_docs" }

\* the fields of a record of the classifier other than total_paths and sample_paths
fields_of(sig) == [c \in DOMAIN sig \ {"signals_json"} |-> sig[c]]

\* C17: classifying the empty path list does not raise and returns the full
\* record: the 16 booleans 0, detected_test_framework, detected_ci and
\* tech_stack empty, the three scores 0.0, total_paths 0, sample_paths empty.
C17_EmptyInput ==
    (Classified /\ cls_paths = <<>>) =>
        /\ DOMAIN cls_sig = SignalFlags \cup
              { "detected_test_framework", "detected_ci", "organization_score",
                "coding_standards_score", "automation_score", "tech_stack", "signals_json" }
        /\ \A c \in SignalFlags : cls_sig[c] = 0
        /\ cls_sig.detected_test_framework = <<>>
        /\ cls_sig.detected_ci = <<>>
        /\ cls_sig.tech_stack = <<>>
        /\ cls_sig.organization_score = 0
        /\ cls_sig.coding_standards_score = 0
        /\ cls_sig.automation_score = 0
        /\ cls_sig.signals_json.total_paths = 0
        /\ cls_sig.signals_json.sample_paths = <<>>

C17_Witness == Classified /\ cls_paths = <<>> /\ "has_tests" \in DOMAIN cls_sig

\* s (in tenths) is k/n of 100 rounded to one decimal: the closest tenth
is_rounded(s, k, n) ==
    /\ 2 * (s * n - 1000 * k) <= n
    /\ 2 * (1000 * k - s * n) <= n

\* C18: each score lies in [0, 100] and is round(100 * k / n, 1), k the
\* number of true items among the n of the score: organization, 9 items
\* (with readme); coding standards, 4; automation, 5.
C18_Scores ==
    Classified =>
        LET s == cls_sig
            has_readme == int(\E i \in DOMAIN cls_paths :
                                  startswith(lower(cls_paths[i]), <<"r","e","a","d","m","e">>))
            k_org == s.has_code_of_conduct + s.has_contributing + s.has_license
                     + s.has_security_policy + s.has_issue_templates + s.has_pr_templates
                     + s.has_changelog + s.has_docs + has_readme
            k_std == s.has_tests + s.has_lint_config + s.has_precommit + s.has_ci_config
            k_auto == s.has_github_actions + s.has_ci_config + s.has_precommit
                      + s.has_dockerfile + s.has_docker_compose
        IN  /\ s.organization_score \in 0..1000
            /\ s.coding_standards_score \in 0..1000
            /\ s.automation_score \in 0..1000
            /\ is_rounded(s.organization_score, k_org, 9)
            /\ is_rounded(s.coding_standards_score, k_std, 4)
            /\ is_rounded(s.automation_score, k_auto, 5)

\* seven of the nine organization items: 77.8 (from 77.77...); all items of
\* the two other scores: 100.0
C18_Witness ==
    /\ Classified
    /\ cls_sig.organization_score = 778
    /\ cls_sig.coding_standards_score = 1000
    /\ cls_sig.automation_score = 1000

\* C19: paths are compared without regard to letter case: replacing a path
\* of the list by a variant that differs in case only (all upper case, all
\* lower case, the case of every letter changed) changes no boolean,
\* categorical, score or tech_stack field.
C19_CaseInsensitive ==
    Classified =>
        \A i \in DOMAIN cls_paths :
            \A v \in {upper(cls_paths[i]), lower(cls_paths[i]), swapcase(cls_paths[i])} :
                fields_of(detect_signals([cls_paths EXCEPT ![i] = v])) = fields_of(cls_sig)

\* README.md is classified (one organization item, the readme); its variants
\* README.MD and readme.md differ from it
C19_Witness ==
    /\ Classified
    /\ cls_paths = << <<"R","E","A","D","M","E",".","m","d">> >>
    /\ cls_sig.organization_score = 111
    /\ upper(cls_paths[1]) # cls_paths[1]
    /\ lower(cls_paths[1]) # cls_paths[1]

\* C20: every field other than total_paths and sample_paths depends on the
\* set of paths only: exchanging two paths of the list or repeating one
\* changes none of them, and total_paths counts every occurrence.
C20_SetOfPathsOnly ==
    Classified =>
        /\ cls_sig.signals_json.total_paths = Len(cls_paths)
        /\ \A i, j \in DOMAIN cls_paths :
              fields_of(detect_signals([cls_paths EXCEPT ![i] = cls_paths[j],
                                                         ![j] = cls_paths[i]]))
                  = fields_of(cls_sig)
        /\ \A i \in DOMAIN cls_paths :
              LET twice == detect_signals(Append(cls_paths, cls_paths[i]))
              IN  /\ fields_of(twice) = fields_of(cls_sig)
                  /\ twice.signals_json.total_paths = Len(cls_paths) + 1
        /\ fields_of(detect_signals(dedup(cls_paths))) = fields_of(cls_sig)

\* a list with a repeated path and two different paths is classified
C20_Witness ==
    /\ Classified
    /\ Len(cls_paths) = 3
    /\ cls_paths[1] = cls_paths[3]
    /\ cls_paths[1] # cls_paths[2]
    /\ cls_sig.signals_json.total_paths = 3
    /\ cls_sig.has_tests = 1

\* C21: classifying ["tests/test_foo.py", ".github/workflows/ci.yml",
\* "Dockerfile", "README.md", "LICENSE"] gives has_tests, has_github_actions,
\* has_ci_config, has_dockerfile and has_license true, detected_ci
\* "github_actions" and organization_score 22.2: of the nine organization
\* items exactly license and readme are true.
C21_ExampleTree ==
    (Classified /\ cls_paths = ExampleTree) =>
        /\ cls_sig.has_tests = 1
        /\ cls_sig.has_github_actions = 1
        /\ cls_sig.has_ci_config = 1
        /\ cls_sig.has_dockerfile = 1
        /\ cls_sig.has_license = 1
        /\ cls_sig.detected_ci = <<"g","i","t","h","u","b","_","a","c","t","i","o","n","s">>
        /\ cls_sig.organization_score = 222
        /\ \A c \in { "has_code_of_conduct", "has_contributing", "has_security_policy",
                      "has_issue_templates", "has_pr_templates", "has_changelog",
                      "has_docs" } : cls_sig[c] = 0
        /\ \E i \in DOMAIN cls_paths : startswith(lower(cls_paths[i]), <<"r","e","a","d","m","e">>)

C21_Witness ==
    /\ Classified
    /\ cls_paths = ExampleTree
    /\ cls_sig.signals_json.total_paths = 5

\* the steps that may follow a step of a run, for the same repository
StepsAfter ==
    [ idle |-> {"list_repos"},
      list_repos |-> {"list_repos"},
      fetch_readme |-> {"upsert_repo"},
      upsert_repo |-> {"list_tree"},
      list_tree |-> {"upsert_signals", "list_commits"},
      upsert_signals |-> {"list_commits"},
      list_commits |-> {"list_commits", "fetch_commit_details"},
      fetch_commit_details |-> {"upsert_commit"},
      upsert_commit |-> {"fetch_commit_details"},
      log_complete |-> {},
      except |-> {} ]

\* C22: the steps of one run are strictly sequential: the repository list is
\* fetched first and is fixed from then on; for each repository, in list
\* order, the README fetch comes before the repos upsert and the tree fetch,
\* the tree fetch and signal computation before the signals upsert and the
\* commit fetch; the run moves to repository i + 1 only from the last step of
\* repository i, and starts it with its README fetch.
C22_StepsInSequence ==
    [][\A w \in Workers :
         LET t == job[w]
             t2 == job'[w]
             last == {"list_repos", "list_commits", "fetch_commit_details", "upsert_commit"}
         IN  t2 # t =>
               \/ t2.pc = "except" /\ t.pc # "except"
               \/ t.pc = "except" /\ t2 = Idle
               \/ t2.pc \in StepsAfter[t.pc] /\ t2.i = t.i
                  /\ (t.pc \notin {"idle", "list_repos", "except"} => t2.repos = t.repos)
                  /\ (t2.pc = "list_repos" => t2.i = 0)
               \/ /\ t.pc \in last
                  /\ t2.repos = t.repos
                  /\ t.repos = source_repos(t.snap)
                  /\ IF t.i < Len(t.repos)
                     THEN t2.pc = "fetch_readme" /\ t2.i = t.i + 1
                     ELSE t2.pc = "log_complete" /\ t2.i = t.i]_vars

\* a run is at the commits of its second repository
C22_Witness ==
    \E w \in Workers :
        /\ job[w].pc = "upsert_commit"
        /\ job[w].i = 2
        /\ job[w].repos = source_repos(job[w].snap)

\* the labels of the top-level categories, in the order of their rules
TopLevel ==
    << <<"P","y","t","h","o","n">>, <<"T","y","p","e","S","c","r","i","p","t">>, <<"J","a","v","a","S","c","r","i","p","t">>, <<"J","a","v","a">>, <<"K","o","t","l","i","n">>, <<"S","c","a","l","a">>, <<"G","o">>,
       <<"R","u","s","t">>, <<"C","+","+">>, <<"C">>, <<"C","#">>, <<"P","H","P">>, <<"S","w","i","f","t">>, <<"S","Q","L">>, <<"d","b","t">>, <<"P","o","w","e","r"," ","B","I">>,
       <<"T","a","b","l","e","a","u">>, <<"T","e","r","r","a","f","o","r","m">>, <<"C","l","o","u","d","F","o","r","m","a","t","i","o","n">>, <<"A","z","u","r","e"," ","B","i","c","e","p">>, <<"A","W","S"," ","C","D","K">>,
       <<"L","a","n","g","G","r","a","p","h">>, <<"L","a","n","g","C","h","a","i","n">>, <<"O","p","e","n","A","I">>, <<"D","o","c","k","e","r">>, <<"D","o","c","k","e","r"," ","C","o","m","p","o","s","e">>,
       <<"S","e","r","v","e","r","l","e","s","s">>, <<"G","i","t","H","u","b"," ","A","c","t","i","o","n","s">> >>

\* the predicate of the k-th category on a lower-cased path
in_category(k, p) ==
    CASE k = 1 -> endswith_any(p, {<<".","p","y">>, <<"r","e","q","u","i","r","e","m","e","n","t","s",".","t","x","t">>, <<"p","y","p","r","o","j","e","c","t",".","t","o","m","l">>,
                                   <<"s","e","t","u","p",".","p","y">>}) \/ contains(p, <<"/","p","y","t","h","o","n">>)
      [] k = 2 -> endswith_any(p, {<<".","t","s">>, <<".","t","s","x">>, <<"t","s","c","o","n","f","i","g",".","j","s","o","n">>})
      [] k = 3 -> endswith_any(p, {<<".","j","s">>, <<".","j","s","x">>, <<"p","a","c","k","a","g","e",".","j","s","o","n">>})
      [] k = 4 -> endswith_any(p, {<<".","j","a","v","a">>, <<"p","o","m",".","x","m","l">>, <<"b","u","i","l","d",".","g","r","a","d","l","e">>,
                                   <<"b","u","i","l","d",".","g","r","a","d","l","e",".","k","t","s">>})
      [] k = 5 -> endswith_any(p, {<<".","k","t">>, <<".","k","t","s">>})
      [] k = 6 -> endswith_any(p, {<<".","s","c","a","l","a">>, <<"b","u","i","l","d",".","s","b","t">>})
      [] k = 7 -> endswith_any(p, {<<".","g","o">>, <<"g","o",".","m","o","d">>, <<"g","o",".","s","u","m">>})
      [] k = 8 -> endswith_any(p, {<<".","r","s">>, <<"c","a","r","g","o",".","t","o","m","l">>})
      [] k = 9 -> endswith_any(p, {<<".","c","p","p">>, <<".","c","c">>, <<".","c","x","x">>, <<"c","m","a","k","e","l","i","s","t","s",".","t","x","t">>})
      [] k = 10 -> endswith(p, <<".","c">>)
      [] k = 11 -> endswith_any(p, {<<".","c","s">>, <<".","c","s","p","r","o","j">>})
      [] k = 12 -> endswith_any(p, {<<".","p","h","p">>, <<"c","o","m","p","o","s","e","r",".","j","s","o","n">>})
      [] k = 13 -> endswith_any(p, {<<".","s","w","i","f","t">>, <<"p","o","d","f","i","l","e">>})
      [] k = 14 -> endswith(p, <<".","s","q","l">>) \/ contains(p, <<"/","m","i","g","r","a","t","i","o","n","s","/">>)
                   \/ contains(p, <<"/","s","c","h","e","m","a","/">>)
      [] k = 15 -> contains(p, <<"d","b","t","_","p","r","o","j","e","c","t",".","y","m","l">>)
      [] k = 16 -> endswith_any(p, {<<".","p","b","i","x">>, <<".","p","b","i","t">>})
      [] k = 17 -> endswith_any(p, {<<".","t","w","b">>, <<".","t","w","b","x">>, <<".","h","y","p","e","r">>, <<".","t","d","s">>, <<".","t","d","s","x">>})
      [] k = 18 -> endswith(p, <<".","t","f">>)
      [] k = 19 -> contains(p, <<"c","l","o","u","d","f","o","r","m","a","t","i","o","n">>)
                   \/ (endswith(p, <<".","y","a","m","l">>) /\ contains(p, <<"a","w","s">>))
      [] k = 20 -> contains(p, <<"b","i","c","e","p">>)
      [] k = 21 -> contains(p, <<"c","d","k">>)
      [] k = 22 -> contains(p, <<"l","a","n","g","g","r","a","p","h">>)
      [] k = 23 -> contains(p, <<"l","a","n","g","c","h","a","i","n">>)
      [] k = 24 -> contains(p, <<"o","p","e","n","a","i">>)
      [] k = 25 -> contains(p, <<"d","o","c","k","e","r","f","i","l","e">>)
      [] k = 26 -> contains(p, <<"d","o","c","k","e","r","-","c","o","m","p","o","s","e">>)
      [] k = 27 -> contains(p, <<"s","e","r","v","e","r","l","e","s","s",".","y","m","l">>)
      [] k = 28 -> contains(p, <<".","g","i","t","h","u","b","/","w","o","r","k","f","l","o","w","s">>)

\* text.split(", ")
RECURSIVE split(_)
split(text) ==
    IF text = <<>> THEN <<>>
    ELSE IF \E i \in 1..(Len(text) - 1) : text[i] = "," /\ text[i + 1] = " "
    THEN LET i == CHOOSE n \in 1..(Len(text) - 1) :
                     /\ text[n] = "," /\ text[n + 1] = " "
                     /\ \A m \in 1..(n - 1) : ~(text[m] = "," /\ text[m + 1] = " ")
         IN  <<SubSeq(text, 1, i - 1)>> \o split(SubSeq(text, i + 2, Len(text)))
    ELSE <<text>>

\* the labels of a tech_stack text
labels_of(text) == {split(text)[i] : i \in 1..Len(split(text))}

\* C23: a path adds the label of at most one top-level category: the first
\* in the order of the rules whose predicate the path meets; tech_stack is
\* the set of the labels of all paths, sorted, without repeats, joined with
\* ", ".
C23_OneCategoryPerPath ==
    Classified =>
        LET labs == split(cls_sig.tech_stack)
            top == {TopLevel[k] : k \in DOMAIN TopLevel}
            of_path(i) == labels_of(detect_signals(<<cls_paths[i]>>).tech_stack)
        IN  /\ \A i \in DOMAIN cls_paths :
                 LET hits == {k \in DOMAIN TopLevel : in_category(k, lower(cls_paths[i]))}
                 IN  of_path(i) \cap top =
                        IF hits = {} THEN {}
                        ELSE {TopLevel[CHOOSE k \in hits : \A m \in hits : k <= m]}
            /\ {labs[n] : n \in DOMAIN labs} = UNION {of_path(i) : i \in DOMAIN cls_paths}
            /\ \A n \in 1..(Len(labs) - 1) : str_lt(labs[n], labs[n + 1])
            /\ cls_sig.tech_stack = join(labs)

\* a Terraform file in a cdk directory and a TypeScript file in a python
\* directory: each meets two categories and carries the label of the first
C23_Witness ==
    /\ Classified
    /\ cls_paths = << <<"i","n","f","r","a","/","c","d","k","/","m","a","i","n",".","t","f">>, <<"s","r","c","/","p","y","t","h","o","n","/","a","p","p",".","t","s">> >>
    /\ cls_sig.tech_stack = <<"P","y","t","h","o","n",","," ","T","e","r","r","a","f","o","r","m">>

\* the framework sub-rules of the categories that have any: substring and label
Frameworks(k) ==
    CASE k = 1 -> { <<<<"f","a","s","t","a","p","i">>, <<"F","a","s","t","A","P","I">>>>, <<<<"f","l","a","s","k">>, <<"F","l","a","s","k">>>>,
                    <<<<"d","j","a","n","g","o">>, <<"D","j","a","n","g","o">>>>, <<<<"s","t","r","e","a","m","l","i","t">>, <<"S","t","r","e","a","m","l","i","t">>>> }
      [] k = 2 -> { <<<<"r","e","a","c","t">>, <<"R","e","a","c","t">>>>, <<<<"n","e","x","t">>, <<"N","e","x","t",".","j","s">>>>,
                    <<<<"n","o","d","e">>, <<"N","o","d","e",".","j","s">>>> }
      [] k = 3 -> { <<<<"r","e","a","c","t">>, <<"R","e","a","c","t">>>>, <<<<"v","u","e">>, <<"V","u","e">>>>,
                    <<<<"a","n","g","u","l","a","r">>, <<"A","n","g","u","l","a","r">>>>, <<<<"n","o","d","e">>, <<"N","o","d","e",".","j","s">>>> }
      [] k = 4 -> { <<<<"s","p","r","i","n","g">>, <<"S","p","r","i","n","g">>>> }
      [] k = 11 -> { <<<<"d","o","t","n","e","t">>, <<".","N","E","T">>>> }
      [] k = 12 -> { <<<<"l","a","r","a","v","e","l">>, <<"L","a","r","a","v","e","l">>>> }
      [] OTHER -> {}

\* the category a lower-cased path falls into: the first whose predicate it
\* meets, 0 when it meets none
category_of(p) ==
    LET hits == {k \in DOMAIN TopLevel : in_category(k, p)}
    IN  IF hits = {} THEN 0 ELSE CHOOSE k \in hits : \A m \in hits : k <= m

\* C24: within the category of a path, every framework sub-rule whose
\* substring occurs in the path adds its label to tech_stack. The code
\* violates it: the sub-rules of a category are one if/elif chain, so only
\* the first matching framework is added.
C24_AllFrameworkLabels ==
    Classified =>
        \A i \in DOMAIN cls_paths :
            LET p == lower(cls_paths[i])
            IN  \A f \in Frameworks(category_of(p)) :
                    contains(p, f[1]) => f[2] \in labels_of(cls_sig.tech_stack)

\* C25: has_lint_config is set exactly when some lower-cased path equals a
\* member of lint_files; a path that only ends with such a name inside a
\* directory does not set it. The code violates it: it also accepts every
\* path that ends with ".eslintrc.js" or ".prettierrc.json".
C25_LintExactOnly ==
    Classified =>
        (cls_sig.has_lint_config = 1
            <=> \E i \in DOMAIN cls_paths : lower(cls_paths[i]) \in lint_files)

\* the CI systems in the order detected_ci tries them
CiOrder ==
    << <<"g","i","t","h","u","b","_","a","c","t","i","o","n","s">>, <<"c","i","r","c","l","e","c","i">>, <<"g","i","t","l","a","b","_","c","i">>, <<"a","z","u","r","e","_","p","i","p","e","l","i","n","e","s">>,
       <<"j","e","n","k","i","n","s">>, <<"t","r","a","v","i","s">> >>

\* the rule of the k-th CI system on a lower-cased path
ci_rule(k, p) ==
    CASE k = 1 -> startswith(p, <<".","g","i","t","h","u","b","/","w","o","r","k","f","l","o","w","s","/">>)
      [] k = 2 -> startswith(p, <<".","c","i","r","c","l","e","c","i","/">>)
      [] k = 3 -> startswith(p, <<".","g","i","t","l","a","b","-","c","i">>)
      [] k = 4 -> contains(p, <<"a","z","u","r","e","-","p","i","p","e","l","i","n","e","s">>)
      [] k = 5 -> contains(p, <<"j","e","n","k","i","n","s","f","i","l","e">>)
      [] k = 6 -> contains(p, <<"t","r","a","v","i","s",".","y","m","l">>)

\* C26: detected_ci is the first CI system, in the order github_actions,
\* circleci, gitlab_ci, azure_pipelines, jenkins, travis, whose rule some
\* path meets, and the empty text when none does; detected_ci is not empty
\* whenever has_ci_config is set, and has_ci_config is set whenever
\* has_github_actions is.
C26_DetectedCiPriority ==
    Classified =>
        LET hits == {k \in DOMAIN CiOrder :
                        \E i \in DOMAIN cls_paths : ci_rule(k, lower(cls_paths[i]))}
        IN  /\ cls_sig.detected_ci =
                  IF hits = {} THEN <<>>
                  ELSE CiOrder[CHOOSE k \in hits : \A m \in hits : k <= m]
            /\ (cls_sig.has_ci_config = 1 => cls_sig.detected_ci # <<>>)
            /\ (cls_sig.has_github_actions = 1 => cls_sig.has_ci_config = 1)

\* a Jenkinsfile listed before a GitLab configuration: the CI-config flag is
\* set without GitHub Actions and the earlier system in the order is reported
C26_Witness ==
    /\ Classified
    /\ cls_paths = << <<"J","e","n","k","i","n","s","f","i","l","e">>, <<".","g","i","t","l","a","b","-","c","i",".","y","m","l">> >>
    /\ cls_sig.has_ci_config = 1
    /\ cls_sig.has_github_actions = 0
    /\ cls_sig.detected_ci = <<"g","i","t","l","a","b","_","c","i">>

\* C27: in every state of every run, between any two statements and after
\* a failure at any point, a repo_signals row or a commits row of
\* (user, repo) is stored only if the repos row of (user, repo) is.
C27_RepoRowFirst ==
    \A x \in repo_signals \cup commits :
        \E r \in repos : r.user = x.user /\ r.repo = x.repo

\* a run in the middle of the commits of a repository: its repos row, its
\* signals row and a commit row are stored, and a failure has happened
C27_Witness ==
    \E w \in Workers :
        /\ job[w].pc = "fetch_commit_details"
        /\ HasRow(repos, w) /\ HasRow(repo_signals, w) /\ HasRow(commits, w)
        /\ faults > 0

\* the keys stored in repos and in commits
repo_keys(table) == {<<x.user, x.repo>> : x \in table}
commit_keys(table) == {<<x.user, x.repo, x.sha>> : x \in table}

\* C28: no step of any run, successful or failed, removes a key from repos
\* or from commits; when the details of the k-th commit of a repository
\* cannot be fetched, the k-1 commits the run has upserted for the
\* repository stay stored, no commit row changes, and the run leaves the
\* commits of that repository for the next repository or the end.
C28_NeverDeletes ==
    [][/\ repo_keys(repos) \subseteq repo_keys(repos')
       /\ commit_keys(commits) \subseteq commit_keys(commits')
       /\ \A w \in Workers :
            LET t == job[w]  t2 == job'[w]
            IN  (t.pc = "fetch_commit_details"
                 /\ t2.pc \notin {"fetch_commit_details", "upsert_commit"}) =>
                    /\ commits' = commits
                    /\ \A m \in 1..(t.j - 1) :
                         <<t.user, t.repos[t.i], t.commits[m]>> \in commit_keys(commits')
                    /\ t2.pc \in {"fetch_readme", "log_complete"}
                    /\ t2.commits = <<>> /\ t2.j = 0
                    /\ (t2.pc = "fetch_readme" => t2.i = t.i + 1)]_vars

\* the details of the second of two commits could not be fetched: the run
\* is at the next repository, its last statement is the applied upsert of
\* the first commit, and that commit is the only one stored
C28_Witness ==
    \E w \in Workers :
        LET t == job[w] IN
        /\ t.pc = "fetch_readme" /\ t.i = 2
        /\ t.stmt.table = "commits" /\ t.stmt.result = "applied"
        /\ Len(source_commits(t.repos[1], t.snap)) = 2
        /\ commit_keys(commits) = {<<t.user, t.repos[1], source_commits(t.repos[1], t.snap)[1]>>}

\* the rows of the three tables keyed by user u
rows_keyed_by(u) ==
    << {x \in repos : x.user = u}, {x \in repo_signals : x.user = u},
       {x \in commits : x.user = u} >>

\* the results the call that reply answers can have in the present store
result_of(rep) ==
    CASE rep.route = "list_repos" -> server_list_repos(rep.user)
      [] rep.route = "get_repo_overview" -> {get_repo_overview(rep.user, rep.args.repo)}
      [] rep.route = "get_repo_signals" -> {get_repo_signals(rep.user, rep.args.repo)}
      [] rep.route = "get_commit_timeline" ->
            get_commit_timeline(rep.user, rep.args.repo, rep.args.limit)
      [] rep.route = "search_readmes" ->
            search_readmes(rep.user, rep.args.query, rep.args.limit)
      [] rep.route = "query_repos_by_signals" ->
            query_repos_by_signals(rep.user, rep.args.filters, rep.args.limit)
      [] rep.route = "aggregate_repo_metrics" -> {aggregate_repo_metrics(rep.user)}
      [] rep.route = "rank_repos_by_activity" ->
            rank_repos_by_activity(rep.user, rep.args.limit)

\* C29: what a read tool returns for a username depends on the rows keyed
\* by that username only: after a tool has answered for user A, a step that
\* changes the store and leaves the rows of A as they were (a run for
\* another username B) leaves what the same call returns as it was.
C29_OnlyOwnRows ==
    [][(/\ reply.route # "none"
        /\ <<repos, repo_signals, commits>>' # <<repos, repo_signals, commits>>
        /\ rows_keyed_by(reply.user)' = rows_keyed_by(reply.user))
           => result_of(reply)' = result_of(reply)]_vars

\* the repositories of a username were listed, then a run for another
\* username went through: the store holds rows of both
C29_Witness ==
    /\ reply.route = "list_repos" /\ reply.body # <<>>
    /\ nreq = 1
    /\ \E x \in repos : x.user # reply.user /\ x.last_ingested_at = now(3)
    /\ \E x \in repos : x.user = reply.user

\* every run that has started ends
C30_RunsTerminate ==
    \A w \in Workers : (job[w].pc # "idle") ~> (job[w].pc = "idle")

\* when a run ends, the status of its user is completed or failed
C30_EndsCompletedOrFailed ==
    [][\A w \in Workers :
          (job[w].pc # "idle" /\ job'[w].pc = "idle")
              => status_of(users', job[w].user) \in {"completed", "failed"}]_vars

\* C30: every run that has started ends (each call returns or raises, the
\* source holds finitely many repositories and commits), and when it ends
\* the status of its user is completed or failed, never pending or
\* in_progress. The code violates the second part: the only status write
\* of a run is the one of the handler of run_ingestion_job, and when that
\* write fails the failure is logged and the status stays pending.
C30_TerminatesWithFinalStatus == C30_RunsTerminate /\ C30_EndsCompletedOrFailed
====
